---- MODULE Spec2Model ----
(***************************************************************************)
(* Model of the acquisition core of the stock service:                     *)
(*   - retry_on_rate_limit and the three decorated fetch methods of        *)
(*     StockDataService (src/src/services/stock_data_service.py)           *)
(*   - the browser session life cycle of YahooFinanceScraper               *)
(*     (src/src/services/yahoo_scraper.py)                                 *)
(*   - the fan-out of update_multiple_stocks                               *)
(*   - save_stock_data and the rows it commits                             *)
(*   - concurrent calls of a function decorated with retry_on_rate_limit   *)
(*   - calculate_growth_metrics, in exact arithmetic                       *)
(* Times are in tenths of a second.                                        *)
(***************************************************************************)
EXTENDS Integers, Sequences, FiniteSets, TLC

VARIABLES
    use_scraper_fallback,   \* StockDataService.use_scraper_fallback
    fn,                     \* the decorated function being invoked ("none" before the call)
    pc,                     \* position of the invocation
    attempt,                \* loop variable of retry_on_rate_limit.wrapper
    pending,                \* the exception the wrapper is handling while it backs off
    trace,                  \* what the invocation did so far, in order
    ret,                    \* what the invocation gave its caller
    scraper,                \* fields of the YahooFinanceScraper of the fallback call
    starts,                 \* number of YahooFinanceScraper.start() calls so far
    opened,                 \* playwright drivers, browsers and pages started
    closed,                 \* those among them that were closed
    scraped,                \* what the scraper's extraction returned
    symbols,                \* argument of update_multiple_stocks
    bpc,                    \* position of update_multiple_stocks
    tasks,                  \* state of each created task, in creation order
    idx,                    \* position of the await loop in tasks
    results,                \* the results dict, as a set of <<symbol, value>>
    db,                     \* the committed rows of the stocks, historical_data and financial_metrics tables
    saves,                  \* state of each save_stock_data call
    down,                   \* the symbols for which the primary source and the fallback both fail
    frames,                 \* the locals of each running retry_on_rate_limit.wrapper call
    historical_data,        \* the history handed to calculate_growth_metrics
    growth,                 \* the calls of calculate_growth_metrics so far: input and result
    text,                   \* the text handed to the scraper's _parse_* methods
    parsed,                 \* the calls of the _parse_* methods so far: method and result
    scrape,                 \* the locals of the running YahooFinanceScraper extraction call
    cascade,                \* the last _extract_text_with_fallbacks call: page answers and result
    tool,                   \* the locals of the running StockDataCollectionTool._run call
    workflow                \* the run of the data-collection graph: node, state, nodes visited

fetchVars == <<use_scraper_fallback, fn, pc, attempt, pending, trace, ret>>
scraperVars == <<scraper, starts, opened, closed, scraped>>
batchVars == <<symbols, bpc, tasks, idx, results>>
saveVars == <<db, saves, down>>
\* the variables the acquisition and fan-out steps never touch
growthVars == <<historical_data, growth>>
parseVars == <<text, parsed>>
pageVars == <<scrape, cascade>>
agentVars == <<tool, workflow>>
tailVars == <<parseVars, pageVars, agentVars>>
laterVars == <<frames, growthVars, tailVars>>
restVars == <<saveVars, laterVars>>
vars == <<fetchVars, scraperVars, batchVars, restVars>>

----------------------------------------------------------------------------
\* Bounds of the model

\* longest table a history source hands back
MaxRows == 2
\* longest symbol list given to update_multiple_stocks
MaxSymbols == 3
\* most save_stock_data calls running at once
MaxSaves == 2
\* most retry-wrapped invocations running at once
MaxInvocations == 2
\* most calls of calculate_growth_metrics in a row
MaxCalls == 2
\* the last calendar day of the clock; the first is day 1
MaxDay == 2

----------------------------------------------------------------------------
\* Text, as sequences of characters

LowerCase == <<"a","b","c","d","e","f","g","h","i","j","k","l","m",
               "n","o","p","q","r","s","t","u","v","w","x","y","z">>
UpperCase == <<"A","B","C","D","E","F","G","H","I","J","K","L","M",
               "N","O","P","Q","R","S","T","U","V","W","X","Y","Z">>

\* str.lower() on one character
LowerChar(c) ==
    IF \E i \in 1..26 : UpperCase[i] = c
    THEN LowerCase[CHOOSE i \in 1..26 : UpperCase[i] = c]
    ELSE c

\* str.upper() on one character
UpperChar(c) ==
    IF \E i \in 1..26 : LowerCase[i] = c
    THEN UpperCase[CHOOSE i \in 1..26 : LowerCase[i] = c]
    ELSE c

\* str.upper()
Upper(s) == [i \in 1..Len(s) |-> UpperChar(s[i])]

\* str.lower()
Lower(s) == [i \in 1..Len(s) |-> LowerChar(s[i])]

\* pat in s
Contains(s, pat) ==
    \E k \in 0..(Len(s) - Len(pat)) :
        \A i \in 1..Len(pat) : s[k + i] = pat[i]

Txt429 == <<"4","2","9">>
TxtTooManyRequests ==
    <<"t","o","o"," ","m","a","n","y"," ","r","e","q","u","e","s","t","s">>

\* messages of the exceptions a call can raise
MsgHttp429 == <<"H","T","T","P"," ","4","2","9">>
MsgTooMany ==
    <<"T","o","o"," ","M","a","n","y"," ","R","e","q","u","e","s","t","s">>
MsgTimedOut == <<"t","i","m","e","d"," ","o","u","t">>
MsgNotFound == <<"4","0","4">>
ErrorMsgs == {MsgHttp429, MsgTooMany, MsgTimedOut, MsgNotFound}

----------------------------------------------------------------------------
\* retry_on_rate_limit

max_retries == 3
\* base_delay=2.0 seconds
base_delay == 20

\* random.uniform(0, 1) seconds
Jitter == {0, 5, 10}
\* random.uniform(0.1, 0.5) seconds
PreSleep == {1, 5}

IsRateLimitError_Always(msg) == TRUE

\* "429" in error_msg or "too many requests" in error_msg, error_msg = str(e).lower()
IsRateLimitError(msg) ==
    \/ Contains(Lower(msg), Txt429)
    \/ Contains(Lower(msg), TxtTooManyRequests)

RetryAllowed_Always(a) == TRUE

\* if attempt < max_retries - 1
RetryAllowed(a) == a < max_retries - 1

\* for attempt in range(max_retries)
LoopContinues(a) == a < max_retries

BackoffDelay_NextAttempt(a, jitter) == base_delay * (2 ^ (a + 1)) + jitter

\* delay = base_delay * (2 ** attempt) + random.uniform(0, 1)
BackoffDelay(a, jitter) == base_delay * (2 ^ a) + jitter

----------------------------------------------------------------------------
\* Values the fetch methods return

NoneValue == [type |-> "None"]

\* what ticker.info holds for a symbol
PrimaryInfos == {[longName |-> "Acme Corporation", exchange |-> "NMS"]}
\* what ticker.info holds, as far as get_financial_metrics reads it
PrimaryMetrics == {[trailingPE |-> 21]}

\* trading days in a year
TradingDays == 252

\* rows ticker.history can hand back
ApiRow(i) == [date |-> i, close |-> 100 + i, dividends |-> 0, splits |-> 0]
ApiTables == {[i \in 1..n |-> ApiRow(i)] : n \in 0..MaxRows}

\* ScrapedHistoricalData lists the extractor can produce
ScrapedRow(i) == [date |-> i, close_price |-> 100 + i]
ScrapedTables == {[i \in 1..n |-> ScrapedRow(i)] : n \in 0..MaxRows}

\* ScrapedStockInfo records the extractor can produce
ScrapedInfos == {[name |-> "AAPL Inc", exchange |-> "Unknown"],
                 [name |-> "Acme Corporation", exchange |-> "Unknown"]}

\* StockInfo(...) built from ticker.info
StockInfoFromApi(info) ==
    [type |-> "StockInfo", name |-> info.longName, exchange |-> info.exchange]

\* HistoricalDataPoint list built from ticker.history
HistoryFromApi(rows) ==
    [type |-> "list",
     items |-> [i \in 1..Len(rows) |->
                  [date |-> rows[i].date, close_price |-> rows[i].close,
                   dividend_amount |-> rows[i].dividends,
                   split_coefficient |-> rows[i].splits]]]

\* FinancialMetricsData(...) built from ticker.info
MetricsFromApi(m) == [type |-> "FinancialMetricsData", pe_ratio |-> m.trailingPE]

\* what the primary path of a decorated method returns for the source's data
PrimaryValue(f, data) ==
    CASE f = "get_stock_info" -> StockInfoFromApi(data)
      [] f = "get_historical_data" -> HistoryFromApi(data)
      [] f = "get_financial_metrics" -> MetricsFromApi(data)

\* the data the primary source can return to a decorated method
PrimaryData(f) ==
    CASE f = "get_stock_info" -> PrimaryInfos
      [] f = "get_historical_data" -> ApiTables
      [] f = "get_financial_metrics" -> PrimaryMetrics

\* what each method returns when it has nothing
DefaultValue(f) ==
    IF f = "get_historical_data" THEN [type |-> "list", items |-> <<>>] ELSE NoneValue

ServiceFns == {"get_stock_info", "get_historical_data", "get_financial_metrics"}
\* "func" is an arbitrary callable handed to the decorator
Fns == ServiceFns \cup {"func"}

\* what the arbitrary callable returns when it returns
FuncValue == [type |-> "result"]

BodyCatches_OnlyOther(f, msg) == ~IsRateLimitError(msg)

\* except Exception as e, around the whole body of each decorated method
BodyCatches(f, msg) == TRUE

TakesFallback_InfoOnly(f, flag) == f = "get_stock_info" /\ flag

\* the handlers take the fallback whatever the flag says
TakesFallback_Unflagged(f, flag) == f \in {"get_stock_info", "get_historical_data"}

\* if self.use_scraper_fallback, in the handlers that have a fallback
TakesFallback(f, flag) == f \in {"get_stock_info", "get_historical_data"} /\ flag

MapScraped_Drop(f, s) == DefaultValue(f)

\* _get_stock_info_with_scraper / _get_historical_data_with_scraper: the conversion
MapScraped(f, s) ==
    IF f = "get_stock_info"
    THEN IF s = NoneValue
         THEN NoneValue
         ELSE [type |-> "StockInfo", name |-> s.name, exchange |-> s.exchange]
    ELSE [type |-> "list",
          items |-> [i \in 1..Len(s.items) |->
                       [date |-> s.items[i].date,
                        close_price |-> s.items[i].close_price,
                        dividend_amount |-> 0, split_coefficient |-> 1]]]

----------------------------------------------------------------------------
\* YahooFinanceScraper: start() and close()

\* where start() can raise: nowhere, starting the driver, launching the browser,
\* opening the page, or setting the page up
StartFailures == {"none", "playwright", "launch", "new_page", "page_setup"}
\* where close() can raise
CloseFailures == {"none", "page", "browser", "stop"}

ReachedBrowser(fail) == fail \notin {"playwright", "launch"}
ReachedPage(fail) == fail \notin {"playwright", "launch", "new_page"}

\* the scraper's fields after its k-th start(), called with browser_type "chromium":
\* the handler logs the exception and leaves what was assigned before it
StartFields(sc, k, fail) ==
    [playwright |-> IF fail # "playwright" THEN k ELSE sc.playwright,
     browser |-> IF ReachedBrowser(fail) THEN k ELSE sc.browser,
     page |-> IF ReachedPage(fail) THEN k ELSE sc.page]

\* what the k-th start() started
StartOpened(k, fail) ==
    {<<"playwright", k>> : x \in {1} \cap (IF fail # "playwright" THEN {1} ELSE {})}
    \cup {<<"browser", k>> : x \in {1} \cap (IF ReachedBrowser(fail) THEN {1} ELSE {})}
    \cup {<<"page", k>> : x \in {1} \cap (IF ReachedPage(fail) THEN {1} ELSE {})}

\* what close() closed: page, then browser, then driver, up to the first exception
CloseClosed(sc, fail) ==
    LET pageRaises == sc.page # 0 /\ fail = "page"
        browserRaises == sc.browser # 0 /\ fail = "browser"
        stopRaises == sc.playwright # 0 /\ fail = "stop"
    IN  (IF sc.page # 0 /\ ~pageRaises THEN {<<"page", sc.page>>} ELSE {})
        \cup (IF ~pageRaises /\ sc.browser # 0 /\ ~browserRaises
              THEN {<<"browser", sc.browser>>} ELSE {})
        \cup (IF ~pageRaises /\ ~browserRaises /\ sc.playwright # 0 /\ ~stopRaises
              THEN {<<"playwright", sc.playwright>>} ELSE {})

\* what the scraper's get_stock_info / get_historical_data can return
ExtractOutcomes(f, sc) ==
    IF sc.page = 0
    THEN {[out |-> "failed", v |-> IF f = "get_stock_info" THEN NoneValue
                                   ELSE [type |-> "list", items |-> <<>>]]}
    ELSE IF f = "get_stock_info"
         THEN {[out |-> "failed", v |-> NoneValue]}
              \cup {[out |-> "ok", v |-> [type |-> "ScrapedStockInfo", name |-> s.name,
                                          exchange |-> s.exchange]] : s \in ScrapedInfos}
         ELSE {[out |-> "failed", v |-> [type |-> "list", items |-> <<>>]]}
              \cup {[out |-> "ok", v |-> [type |-> "list", items |-> t]] :
                        t \in ScrapedTables}

----------------------------------------------------------------------------
\* One invocation of a decorated function

Event(e, a, d, o) == [ev |-> e, a |-> a, d |-> d, out |-> o]

Ok == <<"o","k">>

\* no scraper text has been parsed
PageIdle ==
    /\ scrape = [pc |-> "idle"]
    /\ cascade = <<>>

\* no collection runs
AgentIdle ==
    /\ tool = [pc |-> "idle"]
    /\ workflow = [pc |-> "idle"]

TailIdle ==
    /\ text = [type |-> "None"]
    /\ parsed = <<>>
    /\ PageIdle
    /\ AgentIdle

Init ==
    /\ use_scraper_fallback = TRUE
    /\ fn = "none"
    /\ pc = "idle"
    /\ attempt = 0
    /\ pending = <<>>
    /\ trace = <<>>
    /\ ret = [kind |-> "pending"]
    /\ scraper = [playwright |-> 0, browser |-> 0, page |-> 0]
    /\ starts = 0
    /\ opened = {}
    /\ closed = {}
    /\ scraped = NoneValue
    /\ symbols = <<>>
    /\ bpc = "idle"
    /\ tasks = <<>>
    /\ idx = 0
    /\ results = {}
    /\ db = [stocks |-> {}, historical_data |-> {}, financial_metrics |-> {}]
    /\ saves = <<>>
    /\ down = {}
    /\ frames = <<>>
    /\ historical_data = <<>>
    /\ growth = <<>>
    /\ TailIdle

\* self.use_scraper_fallback is a plain attribute a caller may set before a call
SetUseScraperFallback(b) ==
    /\ pc = "idle"
    /\ use_scraper_fallback # b
    /\ use_scraper_fallback' = b
    /\ UNCHANGED <<fn, pc, attempt, pending, trace, ret, scraperVars, batchVars, restVars>>

\* wrapper(*args, **kwargs) is entered: the for loop starts at attempt 0
Invoke(f) ==
    /\ pc = "idle"
    /\ fn' = f
    /\ pc' = "attempt"
    /\ attempt' = 0
    /\ UNCHANGED <<use_scraper_fallback, pending, trace, ret, scraperVars, batchVars, restVars>>

\* wrapper: what follows the return or the exception of func(*args, **kwargs)
WrapperAfter(res) ==
    IF res.kind = "value"
    THEN /\ ret' = res
         /\ pc' = "done"
         /\ pending' = pending
    ELSE IF IsRateLimitError(res.msg) /\ RetryAllowed(attempt)
         THEN /\ pending' = res.msg
              /\ pc' = "backoff"
              /\ ret' = ret
         ELSE /\ ret' = res
              /\ pc' = "done"
              /\ pending' = pending

\* the arbitrary callable returns
FuncReturns ==
    /\ pc = "attempt"
    /\ fn = "func"
    /\ trace' = Append(trace, Event("primary", attempt, 0, Ok))
    /\ WrapperAfter([kind |-> "value", v |-> FuncValue])
    /\ UNCHANGED <<use_scraper_fallback, fn, attempt, scraperVars, batchVars, restVars>>

\* the arbitrary callable raises
FuncRaises(msg) ==
    /\ pc = "attempt"
    /\ fn = "func"
    /\ trace' = Append(trace, Event("primary", attempt, 0, msg))
    /\ WrapperAfter([kind |-> "raise", msg |-> msg])
    /\ UNCHANGED <<use_scraper_fallback, fn, attempt, scraperVars, batchVars, restVars>>

\* time.sleep(delay); continue
Backoff(jitter) ==
    /\ pc = "backoff"
    /\ trace' = Append(trace, Event("backoff", attempt, BackoffDelay(attempt, jitter), pending))
    /\ attempt' = attempt + 1
    /\ IF LoopContinues(attempt + 1)
       THEN pc' = "attempt" /\ ret' = ret
       ELSE pc' = "done" /\ ret' = [kind |-> "value", v |-> NoneValue]
    /\ UNCHANGED <<use_scraper_fallback, fn, pending, scraperVars, batchVars, restVars>>

\* a decorated method starts: time.sleep(random.uniform(0.1, 0.5))
EnterBody(d) ==
    /\ pc = "attempt"
    /\ fn \in ServiceFns
    /\ trace' = Append(trace, Event("presleep", attempt, d, <<>>))
    /\ pc' = "primary"
    /\ UNCHANGED <<use_scraper_fallback, fn, attempt, pending, ret, scraperVars, batchVars, restVars>>

\* the primary source answers and the method returns the record built from it
PrimaryReturns ==
    /\ pc = "primary"
    /\ \E data \in PrimaryData(fn) :
        WrapperAfter([kind |-> "value", v |-> PrimaryValue(fn, data)])
    /\ trace' = Append(trace, Event("primary", attempt, 0, Ok))
    /\ UNCHANGED <<use_scraper_fallback, fn, attempt, scraperVars, batchVars, restVars>>

\* the primary source raises: the method's handler runs
PrimaryRaises(msg) ==
    /\ pc = "primary"
    /\ IF BodyCatches(fn, msg)
       THEN IF TakesFallback(fn, use_scraper_fallback)
            THEN /\ trace' = trace \o <<Event("primary", attempt, 0, msg),
                                        Event("fallback", attempt, 0, <<>>)>>
                 /\ pc' = "fb_create"
                 /\ UNCHANGED <<ret, pending>>
            ELSE /\ trace' = Append(trace, Event("primary", attempt, 0, msg))
                 /\ WrapperAfter([kind |-> "value", v |-> DefaultValue(fn)])
       ELSE /\ trace' = Append(trace, Event("primary", attempt, 0, msg))
            /\ WrapperAfter([kind |-> "raise", msg |-> msg])
    /\ UNCHANGED <<use_scraper_fallback, fn, attempt, scraperVars, batchVars, restVars>>

\* scraper = await create_yahoo_scraper("chromium"): construct, then start()
CreateYahooScraper(fail) ==
    /\ pc = "fb_create"
    /\ scraper' = StartFields([playwright |-> 0, browser |-> 0, page |-> 0], starts + 1, fail)
    /\ opened' = opened \cup StartOpened(starts + 1, fail)
    /\ starts' = starts + 1
    /\ pc' = "fb_enter"
    /\ UNCHANGED <<use_scraper_fallback, fn, attempt, pending, trace, ret, closed, scraped,
                   batchVars, restVars>>

\* async with scraper: __aenter__ awaits self.start()
AEnter(fail) ==
    /\ pc = "fb_enter"
    /\ scraper' = StartFields(scraper, starts + 1, fail)
    /\ opened' = opened \cup StartOpened(starts + 1, fail)
    /\ starts' = starts + 1
    /\ pc' = "fb_extract"
    /\ UNCHANGED <<use_scraper_fallback, fn, attempt, pending, trace, ret, closed, scraped,
                   batchVars, restVars>>

\* await scraper.get_stock_info(symbol) / scraper.get_historical_data(symbol, period)
Extract ==
    /\ pc = "fb_extract"
    /\ \E o \in ExtractOutcomes(fn, scraper) :
        /\ scraped' = o.v
        /\ trace' = Append(trace, Event("extract", attempt, 0, o.out))
    /\ pc' = "fb_exit"
    /\ UNCHANGED <<use_scraper_fallback, fn, attempt, pending, ret, scraper, starts, opened,
                   closed, batchVars, restVars>>

\* __aexit__ awaits self.close(); the converted result goes back through the method
AExit(fail) ==
    /\ pc = "fb_exit"
    /\ closed' = closed \cup CloseClosed(scraper, fail)
    /\ WrapperAfter([kind |-> "value", v |-> MapScraped(fn, scraped)])
    /\ UNCHANGED <<use_scraper_fallback, fn, attempt, trace, scraper, starts, opened,
                   scraped, batchVars, restVars>>

Next ==
    \/ \E b \in BOOLEAN : SetUseScraperFallback(b)
    \/ \E f \in Fns : Invoke(f)
    \/ FuncReturns
    \/ \E msg \in ErrorMsgs : FuncRaises(msg)
    \/ \E j \in Jitter : Backoff(j)
    \/ \E d \in PreSleep : EnterBody(d)
    \/ PrimaryReturns
    \/ \E msg \in ErrorMsgs : PrimaryRaises(msg)
    \/ \E fail \in StartFailures : CreateYahooScraper(fail)
    \/ \E fail \in StartFailures : AEnter(fail)
    \/ Extract
    \/ \E fail \in CloseFailures : AExit(fail)

Spec == Init /\ [][Next]_vars

\* the calling thread runs the invocation to its end
FairSpec == Spec /\ WF_vars(Next)

----------------------------------------------------------------------------
\* update_multiple_stocks

SymbolNames == {"AAPL", "MSFT"}
SymbolLists == UNION {[1..n -> SymbolNames] : n \in 0..MaxSymbols}

\* how a task ends: save_stock_data returned True or False, or the task raised
TaskOutcomes == {"True", "False", "raised"}

\* results[symbol] = value
DictSet(d, k, v) == {p \in d : p[1] # k} \cup {<<k, v>>}

Recorded_SkipRaised(d, symbol, outcome) ==
    IF outcome = "raised" THEN d ELSE DictSet(d, symbol, outcome = "True")

Recorded_RaisedFailsAll(d, symbol, outcome) ==
    IF outcome = "raised"
    THEN {<<p[1], FALSE>> : p \in d} \cup {<<symbol, FALSE>>}
    ELSE DictSet(d, symbol, outcome = "True")

\* try: results[symbol] = await task / except Exception: results[symbol] = False
Recorded(d, symbol, outcome) ==
    IF outcome = "raised"
    THEN DictSet(d, symbol, FALSE)
    ELSE DictSet(d, symbol, outcome = "True")

\* results = {}; one task is created per symbol, none has run yet
CreateTasks(syms) ==
    /\ bpc = "idle"
    /\ symbols' = syms
    /\ tasks' = [i \in 1..Len(syms) |-> [symbol |-> syms[i], state |-> "running"]]
    /\ results' = {}
    /\ idx' = 1
    /\ bpc' = "awaiting"

\* update_multiple_stocks(symbols) is called, the outcome of each task being an input
UpdateMultipleStocks(syms) ==
    /\ CreateTasks(syms)
    /\ UNCHANGED <<fetchVars, scraperVars, restVars>>

\* _update_stock_async(symbol) ends, in any order among the tasks
TaskCompletes(i, outcome) ==
    /\ bpc = "awaiting"
    /\ i \in DOMAIN tasks
    /\ tasks[i].state = "running"
    /\ tasks' = [tasks EXCEPT ![i].state = outcome]
    /\ UNCHANGED <<symbols, bpc, idx, results, fetchVars, scraperVars, restVars>>

\* result = await task, for the next (symbol, task) of the list
AwaitTask ==
    /\ bpc = "awaiting"
    /\ idx <= Len(tasks)
    /\ tasks[idx].state # "running"
    /\ results' = Recorded(results, tasks[idx].symbol, tasks[idx].state)
    /\ idx' = idx + 1
    /\ UNCHANGED <<symbols, bpc, tasks, fetchVars, scraperVars, restVars>>

\* return results
ReturnResults ==
    /\ bpc = "awaiting"
    /\ idx > Len(tasks)
    /\ bpc' = "returned"
    /\ UNCHANGED <<symbols, tasks, idx, results, fetchVars, scraperVars, restVars>>

BatchNext ==
    \/ \E syms \in SymbolLists : UpdateMultipleStocks(syms)
    \/ \E i \in DOMAIN tasks, o \in TaskOutcomes : TaskCompletes(i, o)
    \/ AwaitTask
    \/ ReturnResults

BatchSpec == Init /\ [][BatchNext]_vars

----------------------------------------------------------------------------
\* Properties of one invocation

\* positions of the trace where the primary source (the wrapped call) was called
PrimaryAt == {i \in DOMAIN trace : trace[i].ev = "primary"}
\* a primary call failed in this invocation
PrimaryFailed == \E i \in PrimaryAt : trace[i].out # Ok
FallbackAt == {i \in DOMAIN trace : trace[i].ev = "fallback"}
ExtractedOk == \E i \in DOMAIN trace : trace[i].ev = "extract" /\ trace[i].out = "ok"
ExtractFailed == \E i \in DOMAIN trace : trace[i].ev = "extract" /\ trace[i].out = "failed"
\* the messages that carry a rate-limit signature
RateLimitMsgs == {MsgHttp429, MsgTooMany}
\* the last primary call before position j
LastPrimaryBefore(j) == CHOOSE i \in PrimaryAt : i < j /\ \A k \in PrimaryAt : k < j => k <= i

\* C1: in get_stock_info and get_historical_data, after a rate-limited failure of
\* the primary call the fallback starts only once every attempt of the retry
\* budget has been made; no fallback starts while attempts remain.
C1_FallbackOnlyAfterRetries ==
    fn \in {"get_stock_info", "get_historical_data"} =>
        \A j \in FallbackAt :
            trace[LastPrimaryBefore(j)].out \in RateLimitMsgs =>
                Cardinality({i \in PrimaryAt : i < j}) = max_retries

\* C2: after a primary error that is not rate-limited no further primary call and
\* no backoff happens in the invocation; in the service methods the primary
\* source is then called exactly once.
C2_NoRetryOnOtherError ==
    \A i \in PrimaryAt :
        (trace[i].out # Ok /\ trace[i].out \notin RateLimitMsgs) =>
            /\ \A j \in DOMAIN trace : j > i => trace[j].ev \notin {"primary", "backoff"}
            /\ fn \in ServiceFns => Cardinality(PrimaryAt) = 1

C2_Witness ==
    /\ pc = "done"
    /\ fn = "get_historical_data"
    /\ \E i \in PrimaryAt : trace[i].out = MsgTimedOut
    /\ FallbackAt # {}

\* the value or exception the last wrapped call ended with
LastCallResult ==
    LET last == CHOOSE i \in PrimaryAt : \A k \in PrimaryAt : k <= i
    IN  IF trace[last].out = Ok
        THEN [kind |-> "value", v |-> FuncValue]
        ELSE [kind |-> "raise", msg |-> trace[last].out]

C3_Bounded ==
    /\ Cardinality(PrimaryAt) <= max_retries + 1
    /\ (pc = "done" /\ fn = "func") => ret = LastCallResult
    /\ (pc = "done" /\ fn \in ServiceFns) => ret.kind = "value"

\* C3: whatever the wrapped call does on each attempt, one invocation makes at
\* most max_retries retries, and it ends, giving the caller the value of the last
\* call or the exception the last call raised.
C3_RetryLoopTerminates ==
    /\ [](C3_Bounded)
    /\ (pc = "attempt") ~> (pc = "done")

C3_Witness ==
    /\ pc = "done"
    /\ fn = "func"
    /\ Cardinality(PrimaryAt) = 3
    /\ \A i \in PrimaryAt : trace[i].out \in RateLimitMsgs
    /\ ret.kind = "raise"

\* the time waited between positions a and b of the trace
RECURSIVE WaitBetween(_, _)
WaitBetween(a, b) == IF a + 1 >= b THEN 0 ELSE trace[a + 1].d + WaitBetween(a + 1, b)

\* pairs of consecutive primary calls
ConsecutiveCalls ==
    {p \in PrimaryAt \X PrimaryAt :
        p[1] < p[2] /\ ~\E k \in PrimaryAt : p[1] < k /\ k < p[2]}

\* C4: between the i-th and the (i+1)-th primary call of one invocation (i from 0)
\* the wait is within [2s * 2^i, 2s * 2^i + 1s], and it is one backoff sleep.
C4_BackoffWindow ==
    \A p \in ConsecutiveCalls :
        LET i == Cardinality({k \in PrimaryAt : k < p[1]})
        IN  /\ WaitBetween(p[1], p[2]) >= 20 * (2 ^ i)
            /\ WaitBetween(p[1], p[2]) <= 20 * (2 ^ i) + 10
            /\ \A k \in (p[1] + 1)..(p[2] - 1) : trace[k].ev = "backoff"

C4_Witness ==
    /\ Cardinality(PrimaryAt) = 3
    /\ \E k \in DOMAIN trace : trace[k].ev = "backoff" /\ trace[k].a = 1 /\ trace[k].d = 45

\* the canonical record made of what the extractor returned
IsMappedFrom(value, s) ==
    IF fn = "get_stock_info"
    THEN /\ value.type = "StockInfo"
         /\ value.name = s.name
         /\ value.exchange = s.exchange
    ELSE /\ value.type = "list"
         /\ Len(value.items) = Len(s.items)
         /\ \A i \in 1..Len(s.items) :
                /\ value.items[i].date = s.items[i].date
                /\ value.items[i].close_price = s.items[i].close_price

YieldedData ==
    /\ ExtractedOk
    /\ fn = "get_historical_data" => Len(scraped.items) > 0

\* the fallback policy, for the methods of F
FallbackPolicy(F) ==
    fn \in F =>
        /\ (\E i \in PrimaryAt : trace[i].out = Ok) => FallbackAt = {}
        /\ pc = "done" /\ PrimaryFailed /\ use_scraper_fallback =>
              /\ FallbackAt # {}
              /\ YieldedData => ret.kind = "value" /\ IsMappedFrom(ret.v, scraped)

\* C5 as stated: the fallback policy holds of get_stock_info, get_historical_data
\* and get_financial_metrics.
C5_FallbackForEveryFetch == FallbackPolicy(ServiceFns)

\* C5 as amended: the fallback policy holds of get_stock_info and
\* get_historical_data; get_financial_metrics never attempts a fallback and
\* returns None when its primary call fails.
C5_FallbackForInfoAndHistory ==
    /\ FallbackPolicy({"get_stock_info", "get_historical_data"})
    /\ fn = "get_financial_metrics" =>
          /\ FallbackAt = {}
          /\ pc = "done" /\ PrimaryFailed => ret = [kind |-> "value", v |-> NoneValue]

C5_Witness ==
    /\ pc = "done"
    /\ fn = "get_historical_data"
    /\ PrimaryFailed
    /\ YieldedData
    /\ Len(ret.v.items) >= 2

\* C6: get_stock_info, get_historical_data and get_financial_metrics give their
\* caller a value, whatever fails in the primary source and in the fallback; no
\* exception leaves them.
C6_NoExceptionEscapes ==
    fn \in ServiceFns => /\ ret.kind # "raise"
                         /\ pc = "done" => ret.kind = "value"

C6_Witness ==
    /\ pc = "done"
    /\ fn = "get_stock_info"
    /\ \E i \in PrimaryAt : trace[i].out \in RateLimitMsgs
    /\ ExtractFailed
    /\ scraper.browser = 0
    /\ ret.kind = "value"

\* C7: when the primary source and the fallback both fail, what
\* get_historical_data returns differs from what a successful acquisition of zero
\* data points returns.
C7_TotalFailureIsDistinguishable ==
    (pc = "done" /\ fn = "get_historical_data" /\ PrimaryFailed /\ ExtractFailed) =>
        ret # [kind |-> "value", v |-> HistoryFromApi(<<>>)]

\* C8: one fallback extraction call launches the browser at most once.
C8_OneBrowserPerCall == Cardinality({h \in opened : h[1] = "browser"}) <= 1

\* C9: when a fallback extraction call has returned, every driver, browser and
\* page started during it has been closed.
C9_NoSessionLeak == pc = "done" => opened \subseteq closed

\* C36: with use_scraper_fallback False, a call of get_stock_info or
\* get_historical_data starts no browser session and extracts nothing; when
\* its primary call fails it returns None, or the empty list for the history,
\* and after an error that is not rate-limited the primary source was called
\* exactly once
C36_DisabledFallbackDoesNothing ==
    (fn \in {"get_stock_info", "get_historical_data"} /\ ~use_scraper_fallback) =>
        /\ starts = 0
        /\ opened = {}
        /\ scraped = NoneValue
        /\ \A i \in DOMAIN trace : trace[i].ev \notin {"fallback", "extract"}
        /\ (pc = "done" /\ PrimaryFailed) =>
              /\ ret = [kind |-> "value",
                        v |-> IF fn = "get_stock_info" THEN NoneValue
                              ELSE [type |-> "list", items |-> <<>>]]
              /\ (\E i \in PrimaryAt : trace[i].out \notin RateLimitMsgs \cup {Ok})
                    => Cardinality(PrimaryAt) = 1

\* get_historical_data ended with the empty list after one failed primary
\* call that timed out, the fallback being disabled, and no session was started
C36_Witness ==
    /\ pc = "done"
    /\ fn = "get_historical_data"
    /\ ~use_scraper_fallback
    /\ PrimaryAt # {}
    /\ \A i \in PrimaryAt : trace[i].out = MsgTimedOut
    /\ ret = [kind |-> "value", v |-> [type |-> "list", items |-> <<>>]]
    /\ starts = 0

----------------------------------------------------------------------------
\* Properties of update_multiple_stocks

\* C10: update_multiple_stocks returns only when every task has completed, and
\* the map it returns has exactly one entry for every requested symbol.
C10_CompleteResultMap ==
    bpc = "returned" =>
        /\ \A i \in DOMAIN tasks : tasks[i].state # "running"
        /\ {p[1] : p \in results} = {symbols[i] : i \in DOMAIN symbols}
        /\ \A p, q \in results : p[1] = q[1] => p = q

C10_Witness ==
    /\ bpc = "returned"
    /\ Len(symbols) >= 3
    /\ \E i, j, k \in DOMAIN tasks :
          /\ tasks[i].state = "raised"
          /\ tasks[j].state = "False"
          /\ tasks[k].state = "True"
    /\ Cardinality(results) = 2

\* the tasks awaited so far whose entry no later awaited task of the same symbol
\* has overwritten
Awaited == {i \in DOMAIN tasks : i < idx}
LastAwaitedOfSymbol ==
    {i \in Awaited : ~\E j \in Awaited : j > i /\ tasks[j].symbol = tasks[i].symbol}

C11_OwnOutcomeRecorded ==
    /\ \A i \in DOMAIN tasks : tasks[i].state \in TaskOutcomes \cup {"running"}
    /\ \A i \in LastAwaitedOfSymbol :
          <<tasks[i].symbol, tasks[i].state = "True">> \in results

C11_TaskKeepsItsOutcome ==
    \A i \in DOMAIN tasks :
        (bpc = "awaiting" /\ tasks[i].state # "running") => tasks'[i] = tasks[i]

\* C11: a task that fails or raises cancels no other task and changes no other
\* symbol's entry: a task that has ended keeps its outcome, and the entry of
\* every awaited symbol is True exactly when its own task returned True.
C11_TasksAreIndependent ==
    /\ [](C11_OwnOutcomeRecorded)
    /\ [][C11_TaskKeepsItsOutcome]_vars

C11_Witness ==
    /\ bpc = "returned"
    /\ Len(tasks) = 3
    /\ tasks[1].symbol # tasks[2].symbol
    /\ tasks[1].state = "True"
    /\ tasks[2].state = "raised"
    /\ tasks[3].state = "True"
    /\ <<tasks[1].symbol, TRUE>> \in results
    /\ <<tasks[2].symbol, FALSE>> \in results

----------------------------------------------------------------------------
\* save_stock_data

\* the symbols callers ask for, as typed
SaveSymbols == {<<"a","a","p","l">>, <<"M","S","F","T">>}
SaveSymbolLists == UNION {[1..n -> SaveSymbols] : n \in 1..MaxSaves}

\* a str argument; None is NoneValue
Str(s) == [type |-> "str", s |-> s]
StockNames == {NoneValue, Str(<<>>), Str(<<"A","c","m","e">>)}

\* truth value of an Optional[str]
Truthy(x) == x # NoneValue /\ x.s # <<>>

\* what self.get_stock_info(symbol) returns: the record of the source, or None
\* when the primary source and the fallback both fail
FetchedInfo(symbol) ==
    IF symbol \in down
    THEN NoneValue
    ELSE [type |-> "StockInfo", symbol |-> Upper(symbol),
          name |-> <<"A","c","m","e"," ","C","o","r","p">>,
          sector |-> "Technology", industry |-> "Software", market_cap |-> 5,
          exchange |-> "NMS", currency |-> "USD", asset_type |-> "stock"]

\* what self.get_historical_data(symbol, years) returns: the converted table, or
\* the empty list when the primary source and the fallback both fail
FetchedHistory(symbol, table) ==
    IF symbol \in down THEN <<>> ELSE HistoryFromApi(table).items

\* what self.get_financial_metrics(symbol) returns
FetchedMetrics(symbol, m) ==
    IF symbol \in down THEN NoneValue ELSE MetricsFromApi(m)

\* the day of the latest datetime.now() any call has read
Clock ==
    LET read == {1} \cup {saves[i].read : i \in DOMAIN saves}
    IN  CHOOSE d \in read : \A e \in read : e <= d

NewStock_EchoName(id, symbol, stock_name, stock_info) ==
    IF stock_info # NoneValue
    THEN [id |-> id, symbol |-> stock_info.symbol, name |-> stock_info.name,
          sector |-> stock_info.sector, industry |-> stock_info.industry,
          market_cap |-> stock_info.market_cap, exchange |-> stock_info.exchange,
          currency |-> stock_info.currency, asset_type |-> stock_info.asset_type]
    ELSE [id |-> id, symbol |-> Upper(symbol),
          name |-> IF stock_name = NoneValue THEN symbol ELSE stock_name.s,
          sector |-> "Unknown", industry |-> "Unknown", market_cap |-> 0,
          exchange |-> "Unknown", currency |-> "USD", asset_type |-> "stock"]

\* Stock(...): the full record when stock_info is truthy, else the basic record
NewStock(id, symbol, stock_name, stock_info) ==
    IF stock_info # NoneValue
    THEN [id |-> id, symbol |-> stock_info.symbol, name |-> stock_info.name,
          sector |-> stock_info.sector, industry |-> stock_info.industry,
          market_cap |-> stock_info.market_cap, exchange |-> stock_info.exchange,
          currency |-> stock_info.currency, asset_type |-> stock_info.asset_type]
    ELSE [id |-> id, symbol |-> Upper(symbol),
          name |-> IF Truthy(stock_name) THEN stock_name.s ELSE Upper(symbol),
          sector |-> "Unknown", industry |-> "Unknown", market_cap |-> 0,
          exchange |-> "Unknown", currency |-> "USD", asset_type |-> "stock"]

\* a stock row saved by an earlier run
StoredStock ==
    [id |-> 0, symbol |-> <<"A","A","P","L">>,
     name |-> <<"A","c","m","e"," ","C","o","r","p">>,
     sector |-> "Technology", industry |-> "Software", market_cap |-> 5,
     exchange |-> "NMS", currency |-> "USD", asset_type |-> "stock"]

EmptyDb == [stocks |-> {}, historical_data |-> {}, financial_metrics |-> {}]
InitialDbs == {EmptyDb, [EmptyDb EXCEPT !.stocks = {StoredStock}]}

\* a call of save_stock_data(symbol, stock_name) that has not run yet
NewSave(symbol, stock_name) ==
    [symbol |-> symbol, stock_name |-> stock_name, pc |-> "query",
     stock |-> NoneValue, info |-> "unset", table |-> <<>>, read |-> 0, acquired |-> <<>>,
     added |-> <<>>, rolled_back |-> <<>>, result |-> "pending"]

\* db.query(Stock).filter(Stock.symbol == symbol.upper()).first()
QueryStock(symbol) == {r \in db.stocks : r.symbol = Upper(symbol)}

\* the rows db.add() put in the session of a call, by table
AddedTo(sv, table) == {sv.added[k].row : k \in {n \in DOMAIN sv.added : sv.added[n].table = table}}

\* another call's transaction holds an uncommitted stock row of this symbol
InsertBlocked(i, sym) ==
    \E j \in DOMAIN saves :
        /\ j # i
        /\ saves[j].result = "pending"
        /\ \E r \in AddedTo(saves[j], "stocks") : r.symbol = sym

\* the coroutine of the task ends when save_stock_data returns
TaskEnds(i, value) ==
    tasks' = IF bpc = "awaiting" /\ i \in DOMAIN tasks
             THEN [tasks EXCEPT ![i].state = value]
             ELSE tasks

\* the exception leaves the with block without a rollback: what the session
\* flushed stays in the database
SaveRaises_NoRollback(i) ==
    /\ saves' = [saves EXCEPT ![i].pc = "done", ![i].rolled_back = saves[i].added,
                              ![i].acquired = IF saves[i].pc = "create"
                                              THEN Append(@, "info") ELSE @,
                              ![i].added = <<>>, ![i].result = "False"]
    /\ TaskEnds(i, "False")
    /\ db' = [db EXCEPT !.stocks = @ \cup AddedTo(saves[i], "stocks")]

\* except Exception: the session is rolled back and save_stock_data returns
\* False; rolled_back keeps the rows the rollback discarded.  When the flush of
\* a new stock raises, the stock info had been fetched
SaveRaises(i) ==
    /\ saves' = [saves EXCEPT ![i].pc = "done", ![i].rolled_back = saves[i].added,
                              ![i].acquired = IF saves[i].pc = "create"
                                              THEN Append(@, "info") ELSE @,
                              ![i].added = <<>>, ![i].result = "False"]
    /\ TaskEnds(i, "False")
    /\ UNCHANGED db

\* update_multiple_stocks(symbols): one save_stock_data(symbol) per task
SaveFanOut(syms) ==
    /\ CreateTasks(syms)
    /\ saves' = [i \in 1..Len(syms) |-> NewSave(syms[i], NoneValue)]
    /\ UNCHANGED <<db, down, fetchVars, scraperVars, laterVars>>

\* save_stock_data(symbol, stock_name), called by itself
SaveDirect(symbol, stock_name) ==
    /\ bpc = "idle"
    /\ bpc' = "direct"
    /\ saves' = <<NewSave(symbol, stock_name)>>
    /\ UNCHANGED <<symbols, tasks, idx, results, db, down, fetchVars, scraperVars, laterVars>>

\* save_stock_data is called again for the symbol after the earlier call
\* returned
SaveAgain ==
    /\ bpc = "direct"
    /\ Len(saves) < MaxSaves
    /\ \A i \in DOMAIN saves : saves[i].pc = "done"
    /\ saves' = Append(saves, NewSave(saves[1].symbol, saves[1].stock_name))
    /\ UNCHANGED <<symbols, bpc, tasks, idx, results, db, down, fetchVars, scraperVars, laterVars>>

\* stock = db.query(Stock)...first()
SaveQuery(i) ==
    /\ saves[i].pc = "query"
    /\ saves' = IF QueryStock(saves[i].symbol) # {}
                THEN [saves EXCEPT ![i].stock = CHOOSE r \in QueryStock(saves[i].symbol) : TRUE,
                                   ![i].pc = "history"]
                ELSE [saves EXCEPT ![i].pc = "create"]
    /\ UNCHANGED <<db, down, batchVars, fetchVars, scraperVars, laterVars>>

\* if not stock: stock_info = self.get_stock_info(symbol); stock = Stock(...);
\* db.add(stock); db.flush()
SaveCreate(i) ==
    /\ saves[i].pc = "create"
    /\ LET info == FetchedInfo(saves[i].symbol)
           stock == NewStock(i, saves[i].symbol, saves[i].stock_name, info)
       IN  /\ ~InsertBlocked(i, stock.symbol)
           /\ IF \E r \in db.stocks : r.symbol = stock.symbol
              THEN SaveRaises(i)
              ELSE /\ saves' = [saves EXCEPT
                                  ![i].stock = stock,
                                  ![i].acquired = Append(@, "info"),
                                  ![i].info = IF info = NoneValue THEN "none" ELSE "full",
                                  ![i].added = Append(@, [table |-> "stocks", row |-> stock]),
                                  ![i].pc = "history"]
                   /\ UNCHANGED <<db, tasks>>
    /\ UNCHANGED <<down, symbols, bpc, idx, results, fetchVars, scraperVars, laterVars>>

\* the rows of the points that db.query(HistoricalData) does not find stored
NewHistoryRows(i, stock, points) ==
    LET fresh == SelectSeq([k \in 1..Len(points) |-> [k |-> k, p |-> points[k]]],
                     LAMBDA e : ~\E r \in db.historical_data :
                                    r.stock_id = stock.id /\ r.date = e.p.date)
    IN  [n \in 1..Len(fresh) |->
            [table |-> "historical_data",
             row |-> [id |-> <<i, fresh[n].k>>, stock_id |-> stock.id,
                      date |-> fresh[n].p.date, close_price |-> fresh[n].p.close_price]]]

\* histories in which the source lists a date twice
RepeatingTables == {<<ApiRow(1), ApiRow(1)>>}
\* a history of one year of trading days
YearTable == [i \in 1..TradingDays |-> ApiRow(i)]
HistoryTables == ApiTables \cup RepeatingTables \cup {YearTable}

\* historical_data = self.get_historical_data(...); for data_point in historical_data: ...
SaveHistory(i) ==
    /\ saves[i].pc = "history"
    /\ \E table \in HistoryTables :
          saves' = [saves EXCEPT
                      ![i].table = FetchedHistory(saves[i].symbol, table),
                      ![i].acquired = Append(@, "history"),
                      ![i].added = @ \o NewHistoryRows(i, saves[i].stock,
                                           FetchedHistory(saves[i].symbol, table)),
                      ![i].pc = "metrics"]
    /\ UNCHANGED <<db, down, batchVars, fetchVars, scraperVars, laterVars>>

\* a statement of the session raises while the history or the metrics are
\* saved (the connection is lost, a row is refused)
SaveStatementRaises(i) ==
    /\ saves[i].pc \in {"history", "metrics"}
    /\ SaveRaises(i)
    /\ UNCHANGED <<down, symbols, bpc, idx, results, fetchVars, scraperVars, laterVars>>

\* the row added for the metrics, if any: none when there are no metrics or when
\* the stock already has a stored row dated today or later.  date is the day
\* of financial_metrics.date, today the day datetime.now().date() gave
NewMetricsRows(i, stock, fm, date, today) ==
    IF fm # NoneValue /\ ~\E r \in db.financial_metrics :
                             r.stock_id = stock.id /\ r.date >= today
    THEN <<[table |-> "financial_metrics",
            row |-> [id |-> <<i, 0>>, stock_id |-> stock.id, date |-> date,
                     pe_ratio |-> fm.pe_ratio]]>>
    ELSE <<>>

\* financial_metrics = self.get_financial_metrics(symbol); if financial_metrics: ...
\* The clock is read twice: by get_financial_metrics for the date of the
\* metrics, and by save_stock_data for today
SaveMetrics(i) ==
    /\ saves[i].pc = "metrics"
    /\ \E m \in PrimaryMetrics, date \in Clock..MaxDay :
        \E today \in date..MaxDay :
          LET fm == FetchedMetrics(saves[i].symbol, m)
          IN  saves' = [saves EXCEPT
                          ![i].added = @ \o NewMetricsRows(i, saves[i].stock, fm, date, today),
                          ![i].read = IF fm = NoneValue THEN date ELSE today,
                          ![i].acquired = Append(@, "metrics"),
                          ![i].pc = "commit"]
    /\ UNCHANGED <<db, down, batchVars, fetchVars, scraperVars, laterVars>>

\* db.commit(); return True -- or the commit raises
SaveCommit(i, ok) ==
    /\ saves[i].pc = "commit"
    /\ IF ok
       THEN /\ db' = [stocks |-> db.stocks \cup AddedTo(saves[i], "stocks"),
                      historical_data |->
                          db.historical_data \cup AddedTo(saves[i], "historical_data"),
                      financial_metrics |->
                          db.financial_metrics \cup AddedTo(saves[i], "financial_metrics")]
            /\ saves' = [saves EXCEPT ![i].pc = "done", ![i].result = "True"]
            /\ TaskEnds(i, "True")
       ELSE SaveRaises(i)
    /\ UNCHANGED <<down, symbols, bpc, idx, results, fetchVars, scraperVars, laterVars>>

\* the database as earlier runs left it, and the state of the sources
SaveInit ==
    /\ use_scraper_fallback = TRUE
    /\ fn = "none"
    /\ pc = "idle"
    /\ attempt = 0
    /\ pending = <<>>
    /\ trace = <<>>
    /\ ret = [kind |-> "pending"]
    /\ scraper = [playwright |-> 0, browser |-> 0, page |-> 0]
    /\ starts = 0
    /\ opened = {}
    /\ closed = {}
    /\ scraped = NoneValue
    /\ symbols = <<>>
    /\ bpc = "idle"
    /\ tasks = <<>>
    /\ idx = 0
    /\ results = {}
    /\ db \in InitialDbs
    /\ saves = <<>>
    /\ down \in SUBSET SaveSymbols
    /\ frames = <<>>
    /\ historical_data = <<>>
    /\ growth = <<>>
    /\ TailIdle

SaveNext ==
    \/ \E syms \in SaveSymbolLists : SaveFanOut(syms)
    \/ \E symbol \in SaveSymbols, name \in StockNames : SaveDirect(symbol, name)
    \/ SaveAgain
    \/ \E i \in DOMAIN saves : SaveQuery(i)
    \/ \E i \in DOMAIN saves : SaveCreate(i)
    \/ \E i \in DOMAIN saves : SaveHistory(i)
    \/ \E i \in DOMAIN saves : SaveMetrics(i)
    \/ \E i \in DOMAIN saves : SaveStatementRaises(i)
    \/ \E i \in DOMAIN saves, ok \in BOOLEAN : SaveCommit(i, ok)
    \/ AwaitTask
    \/ ReturnResults

SaveSpec == SaveInit /\ [][SaveNext]_vars

----------------------------------------------------------------------------
\* Properties of save_stock_data

Requested == {symbols[i] : i \in DOMAIN symbols}

\* exactly one requested symbol has both sources failing, and the save of every
\* other symbol went through
OneSymbolDown ==
    /\ Cardinality(Requested) >= 2
    /\ Cardinality(Requested \cap down) = 1
    /\ \A i \in DOMAIN saves : saves[i].symbol \notin down => saves[i].result = "True"

\* C12: when exactly one symbol's primary source and fallback both fail and all
\* other symbols succeed, the map update_multiple_stocks returns holds False for
\* that symbol and True for every other symbol.
C12_OnlyFailedSymbolReportsFailure ==
    (bpc = "returned" /\ OneSymbolDown) =>
        \A sym \in Requested : <<sym, sym \notin down>> \in results

\* the calls that returned True after finding no stored stock and no stock info
PlaceholderSaves ==
    {i \in DOMAIN saves : saves[i].result = "True" /\ saves[i].info = "none"}

\* the name the placeholder of a call carries: the supplied name, or the
\* uppercased symbol when none (or an empty one) was supplied
PlaceholderName(sv) ==
    IF sv.stock_name \in {NoneValue, Str(<<>>)} THEN Upper(sv.symbol) ELSE sv.stock_name.s

\* every call that returned True left a stock row of its uppercased symbol
Identifiable ==
    \A i \in DOMAIN saves :
        saves[i].result = "True" => \E r \in db.stocks : r.symbol = Upper(saves[i].symbol)

\* C14 as stated: the placeholder has the uppercased symbol, the supplied name or
\* the symbol, and "Unknown" or 0 in every other descriptive field.
C14_PlaceholderAllUnknown ==
    /\ Identifiable
    /\ \A i \in PlaceholderSaves :
          \E r \in db.stocks :
              /\ r.symbol = Upper(saves[i].symbol)
              /\ r.name = PlaceholderName(saves[i])
              /\ r.sector = "Unknown"
              /\ r.industry = "Unknown"
              /\ r.exchange = "Unknown"
              /\ r.currency = "Unknown"
              /\ r.asset_type = "Unknown"
              /\ r.market_cap = 0

\* C14 as amended: the placeholder has the uppercased symbol, the supplied name
\* (the uppercased symbol when the name is None or empty), "Unknown" as sector,
\* industry and exchange, 0 as market_cap, "USD" as currency and "stock" as
\* asset_type; every call that returned True left a stock row of its symbol.
C14_PlaceholderRecord ==
    /\ Identifiable
    /\ \A i \in PlaceholderSaves :
          \E r \in db.stocks :
              /\ r.symbol = Upper(saves[i].symbol)
              /\ r.name = PlaceholderName(saves[i])
              /\ r.sector = "Unknown"
              /\ r.industry = "Unknown"
              /\ r.exchange = "Unknown"
              /\ r.currency = "USD"
              /\ r.asset_type = "stock"
              /\ r.market_cap = 0

C14_Witness ==
    /\ bpc = "direct"
    /\ saves[1].result = "True"
    /\ saves[1].info = "none"
    /\ saves[1].symbol = <<"a","a","p","l">>
    /\ saves[1].stock_name = NoneValue
    /\ \E r \in db.stocks : r.symbol = <<"A","A","P","L">> /\ r.name = <<"A","A","P","L">>

\* the stored rows that call i of save_stock_data created
PersistedBy(i) ==
    {r \in db.stocks : r.id = i}
        \cup {r \in db.historical_data : r.id[1] = i}
        \cup {r \in db.financial_metrics : r.id[1] = i}

\* C33: a call of save_stock_data that returned False left none of the rows it
\* added in the database, whatever step failed; a call that returned True left
\* all of them and a Stock row of its uppercased symbol
C33_AllOrNothing ==
    \A i \in DOMAIN saves :
        /\ saves[i].result = "False" => PersistedBy(i) = {}
        /\ saves[i].result = "True" =>
              /\ \E r \in db.stocks : r.symbol = Upper(saves[i].symbol)
              /\ \A k \in DOMAIN saves[i].added :
                    saves[i].added[k].row \in db[saves[i].added[k].table]

\* a call failed after it had added a stock row and history rows, and none of
\* them is stored, while another call returned True and its stock is stored
C33_Witness ==
    \E i \in DOMAIN saves, j \in DOMAIN saves :
        /\ saves[i].result = "False"
        /\ \E k \in DOMAIN saves[i].rolled_back : saves[i].rolled_back[k].table = "stocks"
        /\ \E k \in DOMAIN saves[i].rolled_back :
              saves[i].rolled_back[k].table = "historical_data"
        /\ PersistedBy(i) = {}
        /\ saves[j].result = "True"
        /\ \E r \in db.stocks : r.id = j /\ r.symbol = Upper(saves[j].symbol)

\* call j ran after call i had returned True, for the same symbol and with the
\* same history from the sources, and returned True as well
RanAgain(i, j) ==
    /\ bpc = "direct"
    /\ i < j
    /\ saves[i].result = "True"
    /\ saves[j].result = "True"
    /\ saves[i].symbol = saves[j].symbol
    /\ saves[i].table = saves[j].table

\* the second run adds no Stock row and no HistoricalData row
AddsNoStockOrHistory(j) ==
    \A k \in DOMAIN saves[j].added :
        saves[j].added[k].table \notin {"stocks", "historical_data"}

\* no stock has two stored FinancialMetrics rows of one calendar day
OneMetricsRowPerDay ==
    \A r1 \in db.financial_metrics, r2 \in db.financial_metrics :
        (r1.stock_id = r2.stock_id /\ r1.date = r2.date) => r1 = r2

\* C34: a second sequential run of save_stock_data for the same symbol with
\* the same source history adds no Stock row and no HistoricalData row, and
\* sequential runs leave at most one FinancialMetrics row per stock and
\* calendar day
C34_SecondRunIdempotent ==
    /\ \A i \in DOMAIN saves, j \in DOMAIN saves : RanAgain(i, j) => AddsNoStockOrHistory(j)
    /\ bpc = "direct" => OneMetricsRowPerDay

----------------------------------------------------------------------------
\* Concurrent invocations of a function decorated with retry_on_rate_limit

\* what the wrapped callable of an invocation can raise
FrameMsgs == {MsgHttp429, MsgTimedOut}
FrameJitter == {0, 10}

\* the frame of a wrapper call that has just entered its for loop
NewFrame == [pc |-> "attempt", attempt |-> 0, log |-> <<>>, ret |-> "pending"]

AttemptAfterBackoff_Shared(fs, j) == [k \in DOMAIN fs |-> fs[k].attempt + 1]

\* continue: the loop variable of the frame that slept moves to the next value
AttemptAfterBackoff(fs, j) ==
    [k \in DOMAIN fs |-> IF k = j THEN fs[k].attempt + 1 ELSE fs[k].attempt]

\* n threads enter wrapper(*args, **kwargs), each for its own symbol
RunConcurrently(n) ==
    /\ frames = <<>>
    /\ frames' = [j \in 1..n |-> NewFrame]
    /\ UNCHANGED <<fetchVars, scraperVars, batchVars, saveVars, growthVars, tailVars>>

\* return func(*args, **kwargs)
FrameReturns(j) ==
    /\ frames[j].pc = "attempt"
    /\ frames' = [frames EXCEPT ![j].pc = "done", ![j].ret = "value",
                                ![j].log = Append(@, [ev |-> "call", out |-> Ok])]
    /\ UNCHANGED <<fetchVars, scraperVars, batchVars, saveVars, growthVars, tailVars>>

\* func raises: the wrapper goes to sleep before a retry, or raises e
FrameRaises(j, msg) ==
    /\ frames[j].pc = "attempt"
    /\ frames' = [frames EXCEPT
                    ![j].log = Append(@, [ev |-> "call", out |-> msg]),
                    ![j].pc = IF IsRateLimitError(msg) /\ RetryAllowed(frames[j].attempt)
                              THEN "backoff" ELSE "done",
                    ![j].ret = IF IsRateLimitError(msg) /\ RetryAllowed(frames[j].attempt)
                               THEN @ ELSE "raise"]
    /\ UNCHANGED <<fetchVars, scraperVars, batchVars, saveVars, growthVars, tailVars>>

\* time.sleep(delay); continue
FrameBackoff(j, jitter) ==
    /\ frames[j].pc = "backoff"
    /\ LET after == AttemptAfterBackoff(frames, j)
       IN  frames' = [k \in DOMAIN frames |->
                        IF k = j
                        THEN [frames[k] EXCEPT
                                !.log = Append(@, [ev |-> "sleep",
                                                   out |-> BackoffDelay(frames[j].attempt, jitter)]),
                                !.attempt = after[k],
                                !.pc = IF LoopContinues(after[k]) THEN "attempt" ELSE "done",
                                !.ret = IF LoopContinues(after[k]) THEN @ ELSE "value"]
                        ELSE [frames[k] EXCEPT !.attempt = after[k]]]
    /\ UNCHANGED <<fetchVars, scraperVars, batchVars, saveVars, growthVars, tailVars>>

ConcurrentNext ==
    \/ \E n \in 1..MaxInvocations : RunConcurrently(n)
    \/ \E j \in DOMAIN frames : FrameReturns(j)
    \/ \E j \in DOMAIN frames, msg \in FrameMsgs : FrameRaises(j, msg)
    \/ \E j \in DOMAIN frames, jitter \in FrameJitter : FrameBackoff(j, jitter)

ConcurrentSpec == Init /\ [][ConcurrentNext]_vars

\* the positions of the calls and of the sleeps in the log of a frame
CallsOf(f) == {k \in DOMAIN f.log : f.log[k].ev = "call"}
SleepsOf(f) == {k \in DOMAIN f.log : f.log[k].ev = "sleep"}

\* C13: the attempt counter and the retry budget of an invocation are its own:
\* its counter is the number of its own backoffs, its i-th backoff (i from 0)
\* lasts between 2s * 2^i and 2s * 2^i + 1s, and it gives up on a rate-limit
\* error only after three calls of its own, whatever the other invocations see.
C13_RetryStateIsLocal ==
    \A j \in DOMAIN frames :
        LET f == frames[j]
        IN  /\ f.attempt = Cardinality(SleepsOf(f))
            /\ \A k \in SleepsOf(f) :
                  LET i == Cardinality({m \in SleepsOf(f) : m < k})
                  IN  /\ f.log[k].out >= 20 * (2 ^ i)
                      /\ f.log[k].out <= 20 * (2 ^ i) + 10
            /\ (f.pc = "done" /\ f.ret = "raise" /\ f.log[Len(f.log)].out = MsgHttp429)
                  => Cardinality(CallsOf(f)) = 3
            /\ Cardinality(CallsOf(f)) <= 3

C13_Witness ==
    /\ Len(frames) = 2
    /\ frames[1].pc = "done"
    /\ frames[1].ret = "raise"
    /\ Cardinality(CallsOf(frames[1])) = 3
    /\ frames[2].pc = "done"
    /\ frames[2].ret = "value"
    /\ Cardinality(CallsOf(frames[2])) = 3
    /\ frames[2].attempt = 2

----------------------------------------------------------------------------
\* calculate_growth_metrics
\* A float is kept as the exact term that defines it: a fraction of integers, or
\* an operation on such terms. Prices are integers (cents).

\* trading days in five years
FiveYearDays == 1260

Frac(n, d) == [op |-> "frac", num |-> n, den |-> d]
\* the int 0
Zero == [op |-> "int", v |-> 0]
\* risk_free_rate = 0.03
risk_free_rate == Frac(3, 100)

\* {} and the keys of the dict of metrics
EmptyDict == [k \in {} |-> Zero]

\* equality and order of two fractions with positive denominators
FracEq(a, b) == a.num * b.den = b.num * a.den
FracLess(a, b) == a.num * b.den < b.num * a.den

\* pd.DataFrame([{'date': ..., 'close': ..., 'volume': ...} for point in historical_data])
DataFrame(h) ==
    [i \in DOMAIN h |->
        [date |-> h[i].date, close |-> h[i].close_price, volume |-> h[i].volume]]

\* df.sort_values('date')
SortValues(df) == SortSeq(df, LAMBDA a, b : a.date < b.date)

CloseColumn_Volume(df) == [i \in DOMAIN df |-> df[i].volume]

\* df['close']
CloseColumn(df) == [i \in DOMAIN df |-> df[i].close]

TooShort_Below251(h) == Len(h) < TradingDays - 1

\* if len(historical_data) < 252
TooShort(h) == Len(h) < TradingDays

PriceAgo_OneEarlier(c, k) == IF Len(c) > k THEN c[Len(c) - k] ELSE c[1]

\* df['close'].iloc[-k] if len(df) >= k else df['close'].iloc[0]
PriceAgo(c, k) == IF Len(c) >= k THEN c[Len(c) - k + 1] ELSE c[1]

\* (current_price / price_1y_ago) - 1
Cagr1y(current_price, price_1y_ago) == Frac(current_price - price_1y_ago, price_1y_ago)

Cagr5y_Unguarded(current_price, price_5y_ago, n) ==
    [op |-> "root5_minus_1", num |-> current_price, den |-> price_5y_ago]

\* ((current_price / price_5y_ago) ** (1/5)) - 1 if len(df) >= 1260 else 0
Cagr5y(current_price, price_5y_ago, n) ==
    IF n >= FiveYearDays
    THEN [op |-> "root5_minus_1", num |-> current_price, den |-> price_5y_ago]
    ELSE Zero

\* df['close'].pct_change(), without its leading NaN
PctChange(c) == [t \in 1..(Len(c) - 1) |-> Frac(c[t + 1] - c[t], c[t])]

\* df['returns'].std() * np.sqrt(252)
Volatility(returns) == [op |-> "std_times_sqrt", of |-> returns, days |-> TradingDays]

\* volatility > 0: the standard deviation is 0 exactly when all returns are equal
IsPositive(volatility) ==
    \E t \in DOMAIN volatility.of : ~FracEq(volatility.of[t], volatility.of[1])

RECURSIVE CumMaxBetween(_, _, _)
\* the running maximum of c[lo..hi], by halves
CumMaxBetween(c, lo, hi) ==
    IF lo = hi
    THEN <<c[lo]>>
    ELSE LET mid == (lo + hi) \div 2
             left == CumMaxBetween(c, lo, mid)
             right == CumMaxBetween(c, mid + 1, hi)
             m == left[Len(left)]
         IN  left \o [k \in 1..Len(right) |-> IF right[k] > m THEN right[k] ELSE m]

CumMax_Overall(c) ==
    LET peak == CumMaxBetween(c, 1, Len(c)) IN [t \in DOMAIN c |-> peak[Len(c)]]

\* df['close'].cummax()
CumMax(c) == CumMaxBetween(c, 1, Len(c))

\* (df['close'] - df['peak']) / df['peak']
Drawdown(c, peak) == [t \in DOMAIN c |-> Frac(c[t] - peak[t], peak[t])]

RECURSIVE ArgMinBetween(_, _, _)
\* a position of the least fraction of d[lo..hi], by halves
ArgMinBetween(d, lo, hi) ==
    IF lo = hi
    THEN lo
    ELSE LET mid == (lo + hi) \div 2
             a == ArgMinBetween(d, lo, mid)
             b == ArgMinBetween(d, mid + 1, hi)
         IN  IF FracLess(d[b], d[a]) THEN b ELSE a

\* df['drawdown'].min()
MinOf(d) == d[ArgMinBetween(d, 1, Len(d))]

\* df['returns'].mean() * 252
AvgReturn(returns) == [op |-> "mean_times", of |-> returns, days |-> TradingDays]

SharpeRatio_Unguarded(avg_return, volatility) ==
    [op |-> "div",
     num |-> [op |-> "sub", left |-> avg_return, right |-> risk_free_rate],
     den |-> volatility]

\* (avg_return - risk_free_rate) / volatility if volatility > 0 else 0
SharpeRatio(avg_return, volatility) ==
    IF IsPositive(volatility)
    THEN [op |-> "div",
          num |-> [op |-> "sub", left |-> avg_return, right |-> risk_free_rate],
          den |-> volatility]
    ELSE Zero

\* the dict of metrics of a frame sorted by date
MetricsOf(df) ==
    LET close == CloseColumn(df)
        current_price == close[Len(close)]
        returns == PctChange(close)
        volatility == Volatility(returns)
    IN  [cagr_1y |-> Cagr1y(current_price, PriceAgo(close, TradingDays)),
         cagr_5y |-> Cagr5y(current_price, PriceAgo(close, FiveYearDays), Len(df)),
         volatility |-> volatility,
         max_drawdown |-> MinOf(Drawdown(close, CumMax(close))),
         sharpe_ratio |-> SharpeRatio(AvgReturn(returns), volatility),
         current_price |-> Frac(current_price, 1)]

\* calculate_growth_metrics(symbol, historical_data)
calculate_growth_metrics(h) ==
    IF TooShort(h) THEN EmptyDict ELSE MetricsOf(SortValues(DataFrame(h)))

\* the lengths, the price series and the orders of the histories handed in
Lengths == {0, 1, TradingDays - 1, TradingDays, TradingDays + 1,
            FiveYearDays - 1, FiveYearDays, FiveYearDays + 1}
Shapes == {"flat", "rising", "falling", "crash", "saw", "step"}
Orders == {"oldest first", "newest first"}
VolumeKinds == {"even", "growing"}

\* the close of day t of a series of n days
PriceOn(shape, t, n) ==
    CASE shape = "flat" -> 100
      [] shape = "rising" -> 100 + t
      [] shape = "falling" -> 2000 - t
      [] shape = "crash" -> IF t % 50 \in 40..44 THEN 60 ELSE 100 + t
      [] shape = "saw" -> 100 + (t % 7)
      [] shape = "step" -> IF t < n THEN 100 ELSE 150

VolumeOn(kind, t) == IF kind = "even" THEN 1000 ELSE 5 * t

\* HistoricalDataPoint list of n days, one point per date
History(n, shape, order, kind) ==
    [i \in 1..n |->
        LET t == IF order = "oldest first" THEN i ELSE n + 1 - i
        IN  [date |-> t, close_price |-> PriceOn(shape, t, n), volume |-> VolumeOn(kind, t)]]

Histories ==
    {History(n, shape, order, "even") : n \in Lengths, shape \in Shapes, order \in Orders}

\* a caller computes the metrics of the history it holds
CalculateGrowthMetrics ==
    /\ Len(growth) < MaxCalls
    /\ growth' = Append(growth, [input |-> historical_data,
                                 result |-> calculate_growth_metrics(historical_data)])
    /\ UNCHANGED <<historical_data, fetchVars, scraperVars, batchVars, saveVars, frames, tailVars>>

\* after a call, the caller holds a history of the same dates and closes, with
\* other volumes
OtherVolumes(kind) ==
    /\ growth # <<>>
    /\ historical_data' =
          [i \in DOMAIN historical_data |->
              [historical_data[i] EXCEPT !.volume = VolumeOn(kind, historical_data[i].date)]]
    /\ historical_data' # historical_data
    /\ UNCHANGED <<growth, fetchVars, scraperVars, batchVars, saveVars, frames, tailVars>>

GrowthInit ==
    /\ use_scraper_fallback = TRUE
    /\ fn = "none"
    /\ pc = "idle"
    /\ attempt = 0
    /\ pending = <<>>
    /\ trace = <<>>
    /\ ret = [kind |-> "pending"]
    /\ scraper = [playwright |-> 0, browser |-> 0, page |-> 0]
    /\ starts = 0
    /\ opened = {}
    /\ closed = {}
    /\ scraped = NoneValue
    /\ symbols = <<>>
    /\ bpc = "idle"
    /\ tasks = <<>>
    /\ idx = 0
    /\ results = {}
    /\ db = [stocks |-> {}, historical_data |-> {}, financial_metrics |-> {}]
    /\ saves = <<>>
    /\ down = {}
    /\ frames = <<>>
    /\ historical_data \in Histories
    /\ growth = <<>>
    /\ TailIdle

GrowthNext ==
    \/ CalculateGrowthMetrics
    \/ \E kind \in VolumeKinds : OtherVolumes(kind)

GrowthSpec == GrowthInit /\ [][GrowthNext]_vars

----------------------------------------------------------------------------
\* Properties of calculate_growth_metrics

\* the closes of a history, oldest first
RECURSIVE ByDate(_)
ByDate(h) ==
    IF \A i \in 1..(Len(h) - 1) : h[i].date < h[i + 1].date
    THEN [i \in DOMAIN h |-> h[i].close_price]
    ELSE ByDate([i \in DOMAIN h |-> h[Len(h) + 1 - i]])

\* the calls made on histories long enough to have metrics
LongCalls == {k \in DOMAIN growth : Len(growth[k].input) >= 252}

\* C15: on a history of fewer than 252 points calculate_growth_metrics returns
\* the empty dict, and a second call on the same history returns it again.
C15_ShortHistoryGivesEmpty ==
    /\ \A k \in DOMAIN growth :
          Len(growth[k].input) < 252 => DOMAIN growth[k].result = {}
    /\ \A j, k \in DOMAIN growth :
          growth[j].input = growth[k].input =>
              DOMAIN growth[j].result = DOMAIN growth[k].result

C15_Witness ==
    /\ Len(growth) = 2
    /\ Len(growth[1].input) = 251
    /\ growth[2].input = growth[1].input
    /\ DOMAIN growth[1].result = {}
    /\ DOMAIN growth[2].result = {}

\* cagr_1y of every long call is P_n / P_(n-back) - 1, where that point exists
Cagr1yFrom(back) ==
    \A k \in LongCalls :
        LET P == ByDate(growth[k].input)
            n == Len(P)
        IN  n > back =>
               FracEq(growth[k].result.cagr_1y, Frac(P[n] - P[n - back], P[n - back]))

\* C16 as stated: cagr_1y = P_n / P_(n-252) - 1, the reference point being 252
\* positions before the last.
C16_Cagr1yFrom252Before == Cagr1yFrom(252)

\* C16 as amended: cagr_1y = P_n / P_(n-251) - 1, the reference point being the
\* first of the last 252 points, 251 positions before the last.
C16_Cagr1yFrom251Before == Cagr1yFrom(251)

C16_Witness ==
    \E k \in DOMAIN growth :
        /\ Len(growth[k].input) = 253
        /\ growth[k].input[1].date = 253
        /\ growth[k].input[1].close_price = 353
        /\ growth[k].result.cagr_1y = Frac(353 - 102, 102)

\* cagr_5y of every long call: the key is there, it is the int 0 below 1260
\* points, and from 1260 points on it is (P_n / P_(n-back)) ** (1/5) - 1, where
\* that point exists
Cagr5yFrom(back) ==
    \A k \in LongCalls :
        LET P == ByDate(growth[k].input)
            n == Len(P)
            r == growth[k].result
        IN  /\ "cagr_5y" \in DOMAIN r
            /\ n < 1260 => r.cagr_5y = Zero
            /\ n >= 1260 => r.cagr_5y.op = "root5_minus_1"
            /\ (n >= 1260 /\ n > back) => /\ r.cagr_5y.num = P[n]
                                          /\ r.cagr_5y.den = P[n - back]

\* C17 as stated: the key cagr_5y is always there, 0 below 1260 points, else
\* derived from the last close and the close 1260 positions before it.
C17_Cagr5yFrom1260Before == Cagr5yFrom(1260)

\* C17 as amended: the key cagr_5y is always there, 0 below 1260 points, else
\* derived from the last close and the close 1259 positions before it, the first
\* of the last 1260 points.
C17_Cagr5yFrom1259Before == Cagr5yFrom(1259)

C17_Witness ==
    /\ \E k \in DOMAIN growth :
          /\ Len(growth[k].input) = 1261
          /\ growth[k].input[1].close_price = 101
          /\ growth[k].result.cagr_5y =
                [op |-> "root5_minus_1", num |-> 100 + 1261, den |-> 100 + 2]
    /\ Len(growth) = 1

\* M is the running maximum of P: M_t = max(P_1..P_t)
IsRunningMax(M, P) ==
    /\ Len(M) = Len(P)
    /\ M[1] = P[1]
    /\ \A t \in 2..Len(P) : M[t] = IF P[t] > M[t - 1] THEN P[t] ELSE M[t - 1]

NonDecreasing(P) == \A t \in 1..(Len(P) - 1) : P[t] <= P[t + 1]

\* C18: max_drawdown is the least (P_t - M_t) / M_t, M_t being the running
\* maximum of the closes in date order; it is never positive, and it is 0
\* exactly when the closes never decrease.
C18_MaxDrawdown ==
    \A k \in LongCalls :
        LET P == ByDate(growth[k].input)
            M == CumMaxBetween(P, 1, Len(P))
            md == growth[k].result.max_drawdown
        IN  /\ IsRunningMax(M, P)
            /\ \E t \in DOMAIN P : FracEq(md, Frac(P[t] - M[t], M[t]))
            /\ \A t \in DOMAIN P : ~FracLess(Frac(P[t] - M[t], M[t]), md)
            /\ md.den > 0
            /\ md.num <= 0
            /\ md.num = 0 <=> NonDecreasing(P)

C18_Witness ==
    /\ \E k \in DOMAIN growth :
          /\ Len(growth[k].input) = 1260
          /\ growth[k].input[1].date = 1260
          /\ growth[k].result.max_drawdown = Frac(60 - 1339, 1339)
    /\ \E k \in DOMAIN growth :
          /\ Len(growth[k].input) = 1260
          /\ growth[k].result.cagr_1y.num > 0
    /\ Len(growth) = 2

\* the daily returns of a close series, and whether they differ
ReturnsOf(P) == [t \in 1..(Len(P) - 1) |-> Frac(P[t + 1] - P[t], P[t])]
ReturnsDiffer(P) ==
    \E t \in 1..(Len(P) - 1) : (P[t + 1] - P[t]) * P[1] # (P[2] - P[1]) * P[t]

\* C19: sharpe_ratio is (mean daily return * 252 - 0.03) / volatility when the
\* volatility is greater than 0 and the int 0 otherwise, as for a constant close
\* series; no division by a zero volatility is made.
C19_SharpeRatio ==
    \A k \in LongCalls :
        LET P == ByDate(growth[k].input)
            r == growth[k].result
            vol == [op |-> "std_times_sqrt", of |-> ReturnsOf(P), days |-> 252]
        IN  /\ r.volatility = vol
            /\ ReturnsDiffer(P) =>
                  r.sharpe_ratio =
                      [op |-> "div",
                       num |-> [op |-> "sub",
                                left |-> [op |-> "mean_times", of |-> ReturnsOf(P),
                                          days |-> 252],
                                right |-> Frac(3, 100)],
                       den |-> vol]
            /\ ~ReturnsDiffer(P) => r.sharpe_ratio = Zero
            /\ (\A t \in DOMAIN P : P[t] = P[1]) => r.sharpe_ratio = Zero

C19_Witness ==
    /\ Len(growth) = 2
    /\ Len(growth[1].input) = 252
    /\ \A t \in 1..252 : growth[1].input[t].close_price = 100
    /\ growth[1].result.sharpe_ratio = Zero
    /\ growth[1].result.volatility.op = "std_times_sqrt"

\* two histories with the same dates and closes, point by point
SamePrices(g, h) ==
    /\ Len(g) = Len(h)
    /\ \A i \in DOMAIN g : g[i].date = h[i].date /\ g[i].close_price = h[i].close_price

\* C20: two histories that agree on the date and the close of every point have
\* the same cagr_1y, cagr_5y, volatility, max_drawdown and sharpe_ratio,
\* whatever their volumes.
C20_VolumeIsIgnored ==
    \A j, k \in DOMAIN growth :
        SamePrices(growth[j].input, growth[k].input) =>
            /\ DOMAIN growth[j].result = DOMAIN growth[k].result
            /\ \A key \in DOMAIN growth[j].result :
                  growth[j].result[key] = growth[k].result[key]

C20_Witness ==
    /\ Len(growth) = 2
    /\ Len(growth[1].input) = 1261
    /\ SamePrices(growth[1].input, growth[2].input)
    /\ \E i \in DOMAIN growth[1].input :
          growth[1].input[i].volume # growth[2].input[i].volume
    /\ growth[1].input[1].close_price # growth[1].input[2].close_price
    /\ growth[1].result.sharpe_ratio.op = "div"
    /\ growth[1].result = growth[2].result

----------------------------------------------------------------------------
\* YahooFinanceScraper._parse_number, _parse_volume and _parse_market_cap,
\* in exact decimal arithmetic: a number is m * 10^e

\* longest free-form text handed to a parser
MaxText == 3

DigitChars == <<"0","1","2","3","4","5","6","7","8","9">>
IsDigit(c) == \E i \in 1..10 : DigitChars[i] = c
DigitOf(c) == (CHOOSE i \in 1..10 : DigitChars[i] = c) - 1

\* str.replace(ch, '') for one character
Remove(s, ch) == SelectSeq(s, LAMBDA c : c # ch)

\* re.sub(r'[^\d.-]', '', s)
ReSubNonNumeric(s) == SelectSeq(s, LAMBDA c : IsDigit(c) \/ c = "." \/ c = "-")

\* m * 10^e without trailing zeros in m
RECURSIVE Decimal(_, _)
Decimal(m, e) ==
    IF m = 0 THEN [m |-> 0, e |-> 0]
    ELSE IF m % 10 = 0 THEN Decimal(m \div 10, e + 1)
    ELSE [m |-> m, e |-> e]

RECURSIVE Pow10(_)
Pow10(k) == IF k = 0 THEN 1 ELSE 10 * Pow10(k - 1)

\* the integer written by a string of digits
RECURSIVE DigitsValue(_)
DigitsValue(s) ==
    IF s = <<>> THEN 0 ELSE 10 * DigitsValue(SubSeq(s, 1, Len(s) - 1)) + DigitOf(s[Len(s)])

\* the exception float() and the str methods raise inside the try blocks
Raised == [type |-> "raised"]

\* float(s) for s made of digits, points and minus signs: an optional sign,
\* then digits with at most one point and at least one digit
FloatOf(s) ==
    LET neg == s # <<>> /\ s[1] = "-"
        body == IF neg THEN Tail(s) ELSE s
        digits == Remove(body, ".")
        point == IF \E i \in 1..Len(body) : body[i] = "."
                 THEN CHOOSE i \in 1..Len(body) : body[i] = "."
                 ELSE Len(body) + 1
    IN  IF /\ digits # <<>>
           /\ \A i \in 1..Len(digits) : IsDigit(digits[i])
           /\ Len(body) - Len(digits) <= 1
        THEN Decimal((IF neg THEN -1 ELSE 1) * DigitsValue(digits),
                     0 - (Len(digits) - (point - 1)))
        ELSE Raised

\* number * multiplier, the multiplier being 10^k
Times(x, k) == Decimal(x.m, x.e + k)

\* int(x): truncation towards zero
IntOf(x) ==
    IF x.e >= 0 THEN x
    ELSE IF x.m >= 0 THEN Decimal(x.m \div Pow10(0 - x.e), 0)
    ELSE Decimal(0 - ((0 - x.m) \div Pow10(0 - x.e)), 0)

AsFloat(x) == [type |-> "float", m |-> x.m, e |-> x.e]
AsInt(x) == [type |-> "int", m |-> x.m, e |-> x.e]

\* try: ... except: return default, given what the body evaluates to
Try_Reraise(outcome, default) == outcome
Try(outcome, default) == IF outcome = Raised THEN default ELSE outcome

\* if not text or text == "-"
Blank(t) == ~Truthy(t) \/ t = Str(<<"-">>)

_parse_number(t) ==
    IF Blank(t) THEN AsFloat(Decimal(0, 0))
    ELSE Try(LET number == FloatOf(ReSubNonNumeric(Remove(t.s, ",")))
             IN  IF number = Raised THEN Raised ELSE AsFloat(number),
             AsFloat(Decimal(0, 0)))

\* the if/elif chain on unit letters: the first letter of the chain the text
\* contains decides the multiplier; no letter leaves it at 1
Unit(s, chain) ==
    IF \E k \in 1..Len(chain) : Contains(s, <<chain[k].letter>>)
    THEN chain[CHOOSE k \in 1..Len(chain) :
                  /\ Contains(s, <<chain[k].letter>>)
                  /\ \A j \in 1..(k - 1) : ~Contains(s, <<chain[j].letter>>)]
    ELSE [letter |-> "", exp |-> 0]

VolumeUnits == <<[letter |-> "K", exp |-> 3], [letter |-> "M", exp |-> 6],
                 [letter |-> "B", exp |-> 9]>>
MarketCapUnits == <<[letter |-> "T", exp |-> 12], [letter |-> "B", exp |-> 9],
                    [letter |-> "M", exp |-> 6]>>

\* float(re.sub(r'[^\d.-]', '', text)) * multiplier, after upper(), the
\* removal of commas and of the unit letter
Scaled(s, chain) ==
    LET upper == Remove(Upper(s), ",")
        unit == Unit(upper, chain)
        number == FloatOf(ReSubNonNumeric(Remove(upper, unit.letter)))
    IN  IF number = Raised THEN Raised ELSE Times(number, unit.exp)

_parse_volume(t) ==
    IF Blank(t) THEN AsInt(Decimal(0, 0))
    ELSE Try(LET product == Scaled(t.s, VolumeUnits)
             IN  IF product = Raised THEN Raised ELSE AsInt(IntOf(product)),
             AsInt(Decimal(0, 0)))

_parse_market_cap(t) ==
    IF Blank(t) THEN AsFloat(Decimal(0, 0))
    ELSE Try(LET product == Scaled(t.s, MarketCapUnits)
             IN  IF product = Raised THEN Raised ELSE AsFloat(product),
             AsFloat(Decimal(0, 0)))

\* the texts a page can hold: any short text over these characters, and
\* amounts with a currency symbol, thousands separators and a unit letter
TextChars == {"0", "1", ".", "-", ",", "$", "K", "M", "B", "T", "b", "x"}
RECURSIVE TextsOfLen(_)
TextsOfLen(n) ==
    IF n = 0 THEN {<<>>}
    ELSE {Append(s, c) : s \in TextsOfLen(n - 1), c \in TextChars}
Amounts ==
    {pre \o num \o suf :
        pre \in {<<>>, <<"$">>},
        num \in {<<"1",".","2">>, <<"1",",","2","0","0">>, <<"4",".","3","5">>},
        suf \in {<<>>, <<"K">>, <<"M">>, <<"B">>, <<"T">>, <<"k">>, <<"m">>, <<"b">>, <<"t">>}}
Texts ==
    {NoneValue} \cup {Str(s) : s \in UNION {TextsOfLen(n) : n \in 0..MaxText} \cup Amounts}

ParserNames == {"_parse_number", "_parse_volume", "_parse_market_cap"}
ParserResult(method, t) ==
    CASE method = "_parse_number" -> _parse_number(t)
      [] method = "_parse_volume" -> _parse_volume(t)
      [] method = "_parse_market_cap" -> _parse_market_cap(t)

Parsed(method) ==
    parsed' = Append(parsed, [method |-> method, text |-> text,
                              result |-> ParserResult(method, text)])

\* a caller hands the text it extracted to one of the parsers
ParseNumber ==
    /\ parsed = <<>>
    /\ Parsed("_parse_number")
    /\ UNCHANGED <<text, fetchVars, scraperVars, batchVars, saveVars, frames, growthVars, pageVars, agentVars>>

ParseVolume ==
    /\ parsed = <<>>
    /\ Parsed("_parse_volume")
    /\ UNCHANGED <<text, fetchVars, scraperVars, batchVars, saveVars, frames, growthVars, pageVars, agentVars>>

ParseMarketCap ==
    /\ parsed = <<>>
    /\ Parsed("_parse_market_cap")
    /\ UNCHANGED <<text, fetchVars, scraperVars, batchVars, saveVars, frames, growthVars, pageVars, agentVars>>

ParseInit ==
    /\ use_scraper_fallback = TRUE
    /\ fn = "none"
    /\ pc = "idle"
    /\ attempt = 0
    /\ pending = <<>>
    /\ trace = <<>>
    /\ ret = [kind |-> "pending"]
    /\ scraper = [playwright |-> 0, browser |-> 0, page |-> 0]
    /\ starts = 0
    /\ opened = {}
    /\ closed = {}
    /\ scraped = NoneValue
    /\ symbols = <<>>
    /\ bpc = "idle"
    /\ tasks = <<>>
    /\ idx = 0
    /\ results = {}
    /\ db = [stocks |-> {}, historical_data |-> {}, financial_metrics |-> {}]
    /\ saves = <<>>
    /\ down = {}
    /\ frames = <<>>
    /\ historical_data = <<>>
    /\ growth = <<>>
    /\ text \in Texts
    /\ parsed = <<>>
    /\ PageIdle
    /\ AgentIdle

ParseNext ==
    \/ ParseNumber
    \/ ParseVolume
    \/ ParseMarketCap

ParseSpec == ParseInit /\ [][ParseNext]_vars

----------------------------------------------------------------------------
\* Properties of the parsers

IsNumber(r) == r.type \in {"float", "int"} /\ r.m \in Int /\ r.e \in Int
IsZeroValue(r) == IsNumber(r) /\ r.m = 0

\* what is left of a text once everything but digits, points and minus signs
\* is dropped reads as a decimal numeral: at least one digit, at most one
\* point, and a minus sign only in front
ReadsAsNumeral(t) ==
    /\ t # NoneValue
    /\ LET kept == SelectSeq(t.s, LAMBDA c : IsDigit(c) \/ c \in {".", "-"})
       IN  /\ Cardinality({i \in DOMAIN kept : IsDigit(kept[i])}) >= 1
           /\ Cardinality({i \in DOMAIN kept : kept[i] = "."}) <= 1
           /\ {i \in DOMAIN kept : kept[i] = "-"} \subseteq {1}

\* C21: every parser returns a number for every text, None included, and
\* never raises; empty text, None and a bare "-" give zero, and so does every
\* text that does not read as a numeral
C21_ParsersAreTotal ==
    \A i \in DOMAIN parsed :
        LET c == parsed[i]
        IN  /\ IsNumber(c.result)
            /\ (c.text \in {NoneValue, Str(<<>>), Str(<<"-">>)}) => IsZeroValue(c.result)
            /\ ~ReadsAsNumeral(c.text) => IsZeroValue(c.result)

C21_Witness ==
    \E i \in DOMAIN parsed :
        /\ parsed[i].method = "_parse_market_cap"
        /\ parsed[i].text = Str(<<"1", "-", "x">>)
        /\ IsZeroValue(parsed[i].result)

\* a numeric text with a trailing unit letter: digits with thousands
\* separators, a currency symbol and at most one point, then K, M, B or T
UnitLetters == <<"K", "M", "B", "T">>
Front(s) == SubSeq(s, 1, Len(s) - 1)
Stripped(s) == SelectSeq(s, LAMBDA c : c \notin {",", "$"})
NumericWithUnit(t) ==
    /\ t # NoneValue
    /\ Len(t.s) >= 2
    /\ \E k \in 1..4 : UnitLetters[k] = t.s[Len(t.s)]
    /\ \A i \in 1..(Len(t.s) - 1) : IsDigit(t.s[i]) \/ t.s[i] \in {".", ",", "$"}
    /\ ReadsAsNumeral(Str(Front(t.s)))

\* the number in front of the unit letter, and the power of ten of the letter
NumberOf(t) == FloatOf(Stripped(Front(t.s)))
PowerOf(t) == 3 * (CHOOSE k \in 1..4 : UnitLetters[k] = t.s[Len(t.s)])

\* the number times 10^k, as the type of the field holds it
Magnitude(method, x, k) ==
    LET product == Decimal(x.m, x.e + k)
    IN  IF method = "_parse_volume" THEN IntOf(product) ELSE product

SameValue(r, x) == IsNumber(r) /\ r.m = x.m /\ r.e = x.e

MagnitudeCalls ==
    {i \in DOMAIN parsed :
        /\ parsed[i].method \in {"_parse_volume", "_parse_market_cap"}
        /\ NumericWithUnit(parsed[i].text)}

\* C22: for market cap and volume alike, a numeric text ending in K, M, B or T
\* is the number times 10^3, 10^6, 10^9 or 10^12, separators and currency
\* symbols stripped
C22_UnitLettersScale ==
    \A i \in MagnitudeCalls :
        SameValue(parsed[i].result,
                  Magnitude(parsed[i].method, NumberOf(parsed[i].text), PowerOf(parsed[i].text)))

----------------------------------------------------------------------------
\* YahooFinanceScraper: reading text from the page

\* str.strip() and the leading half of it
RECURSIVE LStrip(_)
LStrip(s) == IF s # <<>> /\ Head(s) = " " THEN LStrip(Tail(s)) ELSE s
RECURSIVE Strip(_)
Strip(s) ==
    IF s # <<>> /\ Head(s) = " " THEN Strip(Tail(s))
    ELSE IF s # <<>> /\ s[Len(s)] = " " THEN Strip(Front(s))
    ELSE s

\* what the page answers when a selector is queried: the call raises, there
\* is no such element, or there is one, whose text_content() is None or a text
SelectorRaises == [query |-> "raises"]
NoElement == [query |-> "none"]
Element(t) == [query |-> "element", text |-> t]

_extract_text(a) ==
    IF a.query = "element" /\ Truthy(a.text) THEN Str(Strip(a.text.s)) ELSE NoneValue

\* the cascade stopped after its first selector
FirstSelectorOnly(answers) ==
    IF answers = <<>> THEN NoneValue
    ELSE LET t == _extract_text(Head(answers))
         IN  IF Truthy(t) /\ Strip(t.s) # <<>> THEN Str(Strip(t.s)) ELSE NoneValue

\* answers[i] is what the page answers for selectors[i]
RECURSIVE _extract_text_with_fallbacks(_)
_extract_text_with_fallbacks(answers) ==
    IF answers = <<>> THEN NoneValue
    ELSE LET t == _extract_text(Head(answers))
         IN  IF Truthy(t) /\ Strip(t.s) # <<>> THEN Str(Strip(t.s))
             ELSE _extract_text_with_fallbacks(Tail(answers))

\* the answers of a page to a selector list of n selectors: every combination
\* for the three selectors of beta, a selection for the other lists
ElementAnswers ==
    {SelectorRaises, NoElement, Element(Str(<<" ">>)),
     Element(Str(<<" ", "1", ".", "2", " ">>)), Element(Str(<<"2", ".", "5", "T">>))}
FewAnswers(n, t) ==
    {[i \in 1..n |-> NoElement],
     [i \in 1..n |-> IF i = n THEN Element(Str(t)) ELSE SelectorRaises]}
SelectedAnswers(n, t) ==
    {[i \in 1..n |-> NoElement],
     [i \in 1..n |-> IF i = n THEN Element(Str(t)) ELSE SelectorRaises],
     [i \in 1..n |-> IF i = 1 THEN Element(NoneValue)
                     ELSE IF i = 2 THEN Element(Str(t)) ELSE Element(Str(<<"o", "t", "h", "e", "r">>))]}
AnswerLists(key, n, t) ==
    IF key = "beta" THEN [1..n -> ElementAnswers] ELSE SelectedAnswers(n, t)

----------------------------------------------------------------------------
\* YahooFinanceScraper.get_stock_info

\* x < y for decimals
Less(x, y) ==
    LET e == IF x.e < y.e THEN x.e ELSE y.e
    IN  x.m * Pow10(x.e - e) < y.m * Pow10(y.e - e)

NaN == [type |-> "NaN"]

\* the number of digits s starts with
DigitPrefix(s) ==
    CHOOSE n \in 0..Len(s) :
        /\ \A i \in 1..n : IsDigit(s[i])
        /\ n = Len(s) \/ ~IsDigit(s[n + 1])

\* JavaScript parseFloat: the longest decimal numeral the text starts with,
\* after leading white space; NaN when there is none.  The texts of the model
\* hold no exponent and no "Infinity".
parseFloat(s) ==
    LET t == LStrip(s)
        signed == t # <<>> /\ t[1] \in {"-", "+"}
        body == IF signed THEN Tail(t) ELSE t
        n == DigitPrefix(body)
        rest == SubSeq(body, n + 1, Len(body))
        point == rest # <<>> /\ rest[1] = "."
        f == IF point THEN DigitPrefix(Tail(rest)) ELSE 0
    IN  IF n = 0 /\ f = 0 THEN NaN
        ELSE FloatOf((IF signed /\ t[1] = "-" THEN <<"-">> ELSE <<>>)
                     \o SubSeq(body, 1, n)
                     \o (IF f > 0 THEN SubSeq(rest, 1, f + 1) ELSE <<>>))

\* text.replace(/[,$]/g, '')
ReplaceCommaDollar(s) == SelectSeq(s, LAMBDA c : c \notin {",", "$"})

\* the limits of the price validation
MinPrice == 10
MinProminentPrice == 50
MaxPrice == 10000

\* !isNaN(v) && v > lo && v < MaxPrice
Plausible(v, lo) ==
    /\ v # NaN
    /\ Less(Decimal(lo, 0), v)
    /\ Less(v, Decimal(MaxPrice, 0))

\* /^\$?[0-9,]+\.?[0-9]*$/.test(s)
PriceLike(s) ==
    LET b == IF s # <<>> /\ s[1] = "$" THEN Tail(s) ELSE s
        n == CHOOSE k \in 0..Len(b) :
                /\ \A i \in 1..k : IsDigit(b[i]) \/ b[i] = ","
                /\ k = Len(b) \/ ~(IsDigit(b[k + 1]) \/ b[k + 1] = ",")
        rest == SubSeq(b, n + 1, Len(b))
        tail == IF rest # <<>> /\ rest[1] = "." THEN Tail(rest) ELSE rest
    IN  n >= 1 /\ \A i \in 1..Len(tail) : IsDigit(tail[i])

\* the price script takes the largest candidate without the range test
PriceText_Unvalidated(primary, prominent) ==
    LET value(t) == parseFloat(ReplaceCommaDollar(t))
        candidates == SelectSeq(primary, LAMBDA t : t # <<>> /\ value(t) # NaN)
    IN  IF candidates # <<>>
        THEN Str(candidates[CHOOSE i \in DOMAIN candidates :
                     /\ \A j \in DOMAIN candidates :
                            ~Less(value(candidates[i]), value(candidates[j]))
                     /\ \A j \in 1..(i - 1) :
                            Less(value(candidates[j]), value(candidates[i]))])
        ELSE NoneValue

\* the price script: primary holds the trimmed texts of the elements the
\* price selectors match, prominent those of the prominent selectors, in
\* document order.  The plausible primary text of the largest value wins (the
\* first of them on a tie); else the first price-like prominent text; else null
PriceText(primary, prominent) ==
    LET value(t) == parseFloat(ReplaceCommaDollar(t))
        candidates == SelectSeq(primary, LAMBDA t : t # <<>> /\ Plausible(value(t), MinPrice))
        fallback == SelectSeq(prominent,
                        LAMBDA t : t # <<>> /\ PriceLike(t)
                                   /\ Plausible(value(t), MinProminentPrice))
    IN  IF candidates # <<>>
        THEN Str(candidates[CHOOSE i \in DOMAIN candidates :
                     /\ \A j \in DOMAIN candidates :
                            ~Less(value(candidates[i]), value(candidates[j]))
                     /\ \A j \in 1..(i - 1) :
                            Less(value(candidates[j]), value(candidates[i]))])
        ELSE IF fallback # <<>> THEN Str(fallback[1])
        ELSE NoneValue

\* price = self._parse_number(price_text) if price_text else 0.0
PriceOf(price_text) ==
    IF Truthy(price_text) THEN _parse_number(price_text) ELSE AsFloat(Decimal(0, 0))

\* content.replace(/\s*\(.*?\)\s*/g, '')
RECURSIVE RemoveParenthesised(_)
RemoveParenthesised(s) ==
    IF \E i \in DOMAIN s, j \in DOMAIN s : i < j /\ s[i] = "(" /\ s[j] = ")"
    THEN LET i == CHOOSE k \in DOMAIN s :
                     s[k] = "(" /\ \A h \in 1..(k - 1) : s[h] # "("
             j == CHOOSE k \in (i + 1)..Len(s) :
                     s[k] = ")" /\ \A h \in (i + 1)..(k - 1) : s[h] # ")"
             a == CHOOSE k \in 1..i :
                     /\ \A h \in k..(i - 1) : s[h] = " "
                     /\ k = 1 \/ s[k - 1] # " "
             b == CHOOSE k \in j..Len(s) :
                     /\ \A h \in (j + 1)..k : s[h] = " "
                     /\ k = Len(s) \/ s[k + 1] # " "
         IN  SubSeq(s, 1, a - 1) \o RemoveParenthesised(SubSeq(s, b + 1, Len(s)))
    ELSE s

TxtYahoo == <<"Y", "a", "h", "o", "o">>
TxtFinance == <<"F", "i", "n", "a", "n", "c", "e">>
TxtInc == <<" ", "I", "n", "c">>
TxtUnknown == <<"U", "n", "k", "n", "o", "w", "n">>
TxtUSD == <<"U", "S", "D">>

\* the first text of the list that is longer than n characters and names
\* neither Yahoo nor Finance; None when there is none
FirstCompanyLike(texts, n) ==
    LET ok(t) == /\ t # NoneValue
                 /\ Len(t.s) > n
                 /\ ~Contains(t.s, TxtYahoo)
                 /\ ~Contains(t.s, TxtFinance)
    IN  IF \E i \in DOMAIN texts : ok(texts[i])
        THEN texts[CHOOSE i \in DOMAIN texts : ok(texts[i]) /\ \A j \in 1..(i - 1) : ~ok(texts[j])]
        ELSE NoneValue

\* companyName of the name script: p.h1 holds the trimmed texts of the h1
\* elements, p.described the trimmed text of the element of each of the four
\* selectors of method 2 (None when there is none), p.og_title the content of
\* the og:title meta tag
CompanyName(p, symbol) ==
    LET m1 == FirstCompanyLike(p.h1, 10)
        m2 == FirstCompanyLike(p.described, 5)
    IN  IF m1 # NoneValue THEN m1
        ELSE IF m2 # NoneValue THEN m2
        ELSE IF Truthy(p.og_title) /\ Contains(p.og_title.s, symbol)
             THEN Str(Strip(RemoveParenthesised(p.og_title.s)))
        ELSE NoneValue

\* return companyName || '{symbol} Inc'
NameScript_Honest(p, symbol) == CompanyName(p, symbol)
NameScript(p, symbol) ==
    IF Truthy(CompanyName(p, symbol)) THEN CompanyName(p, symbol) ELSE Str(symbol \o TxtInc)

\* the pages of the model
ScrapeSymbols == {<<"A", "A", "P", "L">>, <<"a", "a", "p", "l">>}
NamePages ==
    {[h1 |-> <<>>, described |-> [i \in 1..4 |-> NoneValue], og_title |-> NoneValue],
     [h1 |-> <<Str(<<"Y", "a", "h", "o", "o", " ", "F", "i", "n", "a", "n", "c", "e">>), Str(<<"A", "p", "p", "l", "e", " ", "I", "n", "c", ".", " ", "(", "A", "A", "P", "L", ")">>)>>,
      described |-> [i \in 1..4 |-> NoneValue], og_title |-> NoneValue],
     [h1 |-> <<Str(<<"Y", "a", "h", "o", "o", " ", "F", "i", "n", "a", "n", "c", "e">>)>>,
      described |-> <<NoneValue, Str(<<"A", "A", "P", "L">>), Str(<<"A", "p", "p", "l", "e", " ", "I", "n", "c", ".">>), NoneValue>>,
      og_title |-> Str(<<"Y", "a", "h", "o", "o", " ", "F", "i", "n", "a", "n", "c", "e">>)],
     [h1 |-> <<Str(<<"A", "p", "p", "l", "e">>)>>, described |-> [i \in 1..4 |-> NoneValue],
      og_title |-> Str(<<"A", "p", "p", "l", "e", " ", "I", "n", "c", ".", " ", "(", "A", "A", "P", "L", ")", " ", "S", "t", "o", "c", "k">>)]}
PriceTexts ==
    {<<"0">>, <<"5", ".", "0", "0">>, <<"$", "1", ",", "2", "3", "4", ".", "5", "0">>,
     <<"1", "0", "0", "0", "0">>,
     <<"9", "9", "9", "9", " ", "1", "2">>,
     <<"1", "5", "0", ".", "2", "5", "+", "1", ".", "2", "0">>, <<"N", "/", "A">>}
ProminentTexts == {<<"7", "5">>, <<"3", "0">>, <<"7", "5", " ", "U", "S", "D">>}
PricePages ==
    {[primary |-> p, prominent |-> q] :
        p \in {<<>>} \cup {<<a>> : a \in PriceTexts}
                     \cup {<<a, b>> : a \in PriceTexts, b \in PriceTexts},
        q \in {<<>>} \cup {<<a>> : a \in ProminentTexts}}

\* the statistics, in the order _extract_key_statistics_enhanced reads them:
\* key, number of selectors, parser
StatFields ==
    <<[key |-> "market_cap", selectors |-> 6, parser |-> "_parse_market_cap"],
      [key |-> "pe_ratio", selectors |-> 4, parser |-> "_parse_number"],
      [key |-> "volume", selectors |-> 4, parser |-> "_parse_volume"],
      [key |-> "beta", selectors |-> 3, parser |-> "_parse_number"],
      [key |-> "eps", selectors |-> 3, parser |-> "_parse_number"]>>

\* dict.get(key) and dict.get(key, default) on the stats dict
Get(d, key, default) == IF key \in DOMAIN d THEN d[key] ELSE default

\* _extract_sector_industry_enhanced: the answers of the summary page to the
\* sector and industry selectors, whether the profile page loads, and the
\* answers of the profile page
SectorIndustry(s1, i1, profile_ok, s2, i2) ==
    LET sector == _extract_text_with_fallbacks(s1)
        industry == _extract_text_with_fallbacks(i1)
        found(x) == Truthy(x) /\ x # Str(TxtUnknown)
        orUnknown(x) == IF Truthy(x) THEN x ELSE Str(TxtUnknown)
    IN  IF found(sector) /\ found(industry) THEN <<sector, industry>>
        ELSE IF ~profile_ok THEN <<Str(TxtUnknown), Str(TxtUnknown)>>
        ELSE <<orUnknown(IF found(sector) THEN sector ELSE _extract_text_with_fallbacks(s2)),
               orUnknown(IF found(industry) THEN industry ELSE _extract_text_with_fallbacks(i2))>>

\* ScrapedStockInfo(...) as get_stock_info builds it
ScrapedStockInfo(symbol, name, price, sector, industry, stats) ==
    [type |-> "ScrapedStockInfo",
     symbol |-> Str(Upper(symbol)),
     name |-> IF Truthy(name) THEN name ELSE Str(symbol \o TxtInc),
     price |-> price,
     sector |-> IF Truthy(sector) THEN sector ELSE Str(TxtUnknown),
     industry |-> IF Truthy(industry) THEN industry ELSE Str(TxtUnknown),
     market_cap |-> Get(stats, "market_cap", AsFloat(Decimal(0, 0))),
     exchange |-> Str(TxtUnknown),
     currency |-> Str(TxtUSD),
     pe_ratio |-> Get(stats, "pe_ratio", NoneValue),
     pb_ratio |-> Get(stats, "pb_ratio", NoneValue),
     dividend_yield |-> Get(stats, "dividend_yield", NoneValue),
     beta |-> Get(stats, "beta", NoneValue),
     eps |-> Get(stats, "eps", NoneValue),
     volume |-> Get(stats, "volume", NoneValue)]

\* the locals of a get_stock_info call; unresolved collects the fields for
\* which no locator gave a value (pb_ratio and dividend_yield have none),
\* located the text of the one element the price locators of the page match
\* when they match exactly one, and summary what the summary page gave for
\* sector and industry and whether the profile page loaded after it
NewInfoCall(symbol) ==
    [method |-> "get_stock_info", symbol |-> symbol, pc |-> "goto",
     loaded |-> FALSE, markers |-> FALSE,
     unresolved |-> {"pb_ratio", "dividend_yield"},
     name |-> NoneValue, price_text |-> NoneValue, price |-> AsFloat(Decimal(0, 0)),
     k |-> 1, stats |-> EmptyDict, located |-> NoneValue, summary |-> <<>>,
     result |-> <<>>]

\* scraper.get_stock_info(symbol) is called on a started scraper
GetStockInfo(symbol) ==
    /\ scrape.pc = "idle"
    /\ scrape' = NewInfoCall(symbol)
    /\ UNCHANGED <<cascade, parseVars, agentVars, fetchVars, scraperVars, batchVars, saveVars, frames, growthVars>>

\* page.goto(url) returns: the summary page is loaded
InfoGoto ==
    /\ scrape.pc = "goto"
    /\ scrape.method = "get_stock_info"
    /\ scrape' = [scrape EXCEPT !.pc = "wait", !.loaded = TRUE]
    /\ UNCHANGED <<cascade, parseVars, agentVars, fetchVars, scraperVars, batchVars, saveVars, frames, growthVars>>

\* wait_for_timeout, then _wait_for_any_selector: its result is not used
InfoWaitMarkers(found) ==
    /\ scrape.pc = "wait"
    /\ scrape.method = "get_stock_info"
    /\ scrape' = [scrape EXCEPT !.pc = "name", !.markers = found]
    /\ UNCHANGED <<cascade, parseVars, agentVars, fetchVars, scraperVars, batchVars, saveVars, frames, growthVars>>

\* page.goto, page.wait_for_timeout or page.evaluate raises: the except
\* clause of get_stock_info returns None
InfoPageCallRaises ==
    /\ scrape.pc \in {"goto", "wait", "name", "price"}
    /\ scrape.method = "get_stock_info"
    /\ scrape' = [scrape EXCEPT !.pc = "done", !.result = NoneValue]
    /\ UNCHANGED <<cascade, parseVars, agentVars, fetchVars, scraperVars, batchVars, saveVars, frames, growthVars>>

\* name = await self.page.evaluate(...)
InfoName(p) ==
    /\ scrape.pc = "name"
    /\ scrape' = [scrape EXCEPT
          !.pc = "price",
          !.name = NameScript(p, scrape.symbol),
          !.unresolved = IF Truthy(CompanyName(p, scrape.symbol)) THEN @ ELSE @ \cup {"name"}]
    /\ UNCHANGED <<cascade, parseVars, agentVars, fetchVars, scraperVars, batchVars, saveVars, frames, growthVars>>

\* price_text = await self.page.evaluate(...), then price
InfoPrice(p) ==
    /\ scrape.pc = "price"
    /\ LET price_text == PriceText(p.primary, p.prominent)
       IN  scrape' = [scrape EXCEPT
              !.pc = "stats",
              !.price_text = price_text,
              !.price = PriceOf(price_text),
              !.located = IF Len(p.primary) = 1 /\ p.prominent = <<>>
                          THEN Str(p.primary[1])
                          ELSE NoneValue,
              !.unresolved = IF Truthy(price_text) THEN @ ELSE @ \cup {"price"}]
    /\ UNCHANGED <<cascade, parseVars, agentVars, fetchVars, scraperVars, batchVars, saveVars, frames, growthVars>>

TxtStat == <<"2", ".", "5", "T">>

\* one statistic of _extract_key_statistics_enhanced: the cascade over its
\* selectors and, when it gives a text, the parser
InfoStat ==
    /\ scrape.pc = "stats"
    /\ \E answers \in AnswerLists(StatFields[scrape.k].key, StatFields[scrape.k].selectors, TxtStat) :
        LET field == StatFields[scrape.k]
            found == _extract_text_with_fallbacks(answers)
        IN  /\ cascade' = [answers |-> answers, result |-> found]
            /\ scrape' = [scrape EXCEPT
                  !.pc = IF scrape.k = Len(StatFields) THEN "sector" ELSE "stats",
                  !.k = IF scrape.k = Len(StatFields) THEN @ ELSE @ + 1,
                  !.stats = IF Truthy(found)
                            THEN @ @@ (field.key :> ParserResult(field.parser, found))
                            ELSE @,
                  !.unresolved = IF Truthy(found) THEN @ ELSE @ \cup {field.key}]
    /\ UNCHANGED <<parseVars, agentVars, fetchVars, scraperVars, batchVars, saveVars, frames, growthVars>>

\* _extract_sector_industry_enhanced, then the record is built and returned
InfoSectorIndustry(s1, i1, profile_ok, s2, i2) ==
    /\ scrape.pc = "sector"
    /\ LET si == SectorIndustry(s1, i1, profile_ok, s2, i2)
           none(a, b) == /\ ~Truthy(_extract_text_with_fallbacks(a))
                         /\ ~profile_ok \/ ~Truthy(_extract_text_with_fallbacks(b))
           unresolved == scrape.unresolved
                            \cup (IF none(s1, s2) THEN {"sector"} ELSE {})
                            \cup (IF none(i1, i2) THEN {"industry"} ELSE {})
           found(a) == LET x == _extract_text_with_fallbacks(a)
                       IN  Truthy(x) /\ x # Str(TxtUnknown)
           last == IF (found(s1) /\ found(i1)) \/ ~profile_ok THEN i1
                   ELSE IF ~found(i1) THEN i2 ELSE s2
       IN  /\ scrape' = [scrape EXCEPT
                 !.pc = "done",
                 !.unresolved = unresolved,
                 !.summary = [sector |-> _extract_text_with_fallbacks(s1),
                              industry |-> _extract_text_with_fallbacks(i1),
                              profile_ok |-> profile_ok],
                 !.result = ScrapedStockInfo(scrape.symbol, scrape.name, scrape.price,
                                             si[1], si[2], scrape.stats)]
           /\ cascade' = [answers |-> last, result |-> _extract_text_with_fallbacks(last)]
    /\ UNCHANGED <<parseVars, agentVars, fetchVars, scraperVars, batchVars, saveVars, frames, growthVars>>

TxtTechnology == <<"T", "e", "c", "h", "n", "o", "l", "o", "g", "y">>
TxtElectronics == <<" ", "C", "o", "n", "s", "u", "m", "e", "r", " ", "E", "l", "e", "c", "t", "r", "o", "n", "i", "c", "s", " ">>



----------------------------------------------------------------------------
\* Properties of the scraper's extraction

\* a candidate resolves when its selector gives an element whose text holds
\* something else than white space
Resolves(a) ==
    /\ a.query = "element"
    /\ a.text # NoneValue
    /\ \E i \in DOMAIN a.text.s : a.text.s[i] # " "

\* the text between its first and its last character that is not white space
Trimmed(s) ==
    LET inked == {i \in DOMAIN s : s[i] # " "}
    IN  SubSeq(s, CHOOSE i \in inked : \A j \in inked : i <= j,
                  CHOOSE i \in inked : \A j \in inked : j <= i)

\* C23: the cascade returns the stripped text of the lowest-index candidate
\* that resolves, whatever the earlier candidates did, and None exactly when
\* no candidate resolves
C23_LowestResolvingCandidate ==
    DOMAIN cascade # {} =>
        LET hits == {i \in DOMAIN cascade.answers : Resolves(cascade.answers[i])}
        IN  IF hits = {}
            THEN cascade.result = NoneValue
            ELSE LET first == CHOOSE i \in hits : \A j \in hits : i <= j
                 IN  cascade.result = Str(Trimmed(cascade.answers[first].text.s))

\* only the third candidate resolves, after one that raised and one that was
\* blank, and its value is returned
C23_Witness ==
    /\ DOMAIN cascade # {}
    /\ cascade.answers = <<SelectorRaises, Element(Str(<<" ">>)), Element(Str(<<" ", "1", ".", "2", " ">>))>>
    /\ cascade.result = Str(<<"1", ".", "2">>)

\* the record a finished get_stock_info call returned, if it returned one
Returned ==
    /\ scrape.pc = "done"
    /\ scrape.method = "get_stock_info"
    /\ scrape.result # NoneValue

FieldOf(r, f) ==
    CASE f = "name" -> r.name
      [] f = "price" -> r.price
      [] f = "sector" -> r.sector
      [] f = "industry" -> r.industry
      [] f = "market_cap" -> r.market_cap
      [] f = "pe_ratio" -> r.pe_ratio
      [] f = "pb_ratio" -> r.pb_ratio
      [] f = "dividend_yield" -> r.dividend_yield
      [] f = "beta" -> r.beta
      [] f = "eps" -> r.eps
      [] f = "volume" -> r.volume

\* None, "Unknown" or a zero
MarkedAbsent(v) ==
    \/ v = NoneValue
    \/ v = Str(TxtUnknown)
    \/ v.type \in {"float", "int"} /\ v.m = 0

\* C24: in a returned record every field for which no locator gave a value is
\* None, "Unknown" or zero; nothing that looks like data is made up for it
C24_NothingFabricated ==
    Returned => \A f \in scrape.unresolved : MarkedAbsent(FieldOf(scrape.result, f))

\* C25: the price of a returned record is 0.0 or a value v with
\* 0 < v <= 10000, whatever the page holds
C25_PriceInRange ==
    Returned =>
        \/ scrape.result.price.m = 0
        \/ /\ Less(Decimal(0, 0), scrape.result.price)
           /\ ~Less(Decimal(MaxPrice, 0), scrape.result.price)

\* C28: once the summary page is loaded get_stock_info returns a record,
\* whatever markers and candidates resolve and whether or not the profile
\* page loads; None is returned only when the summary page did not load
C28_NoneOnlyWhenNotLoaded ==
    (scrape.pc = "done" /\ scrape.method = "get_stock_info" /\ scrape.loaded)
        => scrape.result # NoneValue

\* the number the price script reads in a text
ScriptValue(t) == parseFloat(ReplaceCommaDollar(t))

\* greater than 0 and at most 10000
InSaneRange(v) ==
    /\ v # NaN
    /\ Less(Decimal(0, 0), v)
    /\ ~Less(Decimal(MaxPrice, 0), v)

\* C31: when the price locators of the page match one element and its text
\* reads as a number greater than 0 and at most 10000, the returned record
\* has that number as its price
C31_SanePriceAccepted ==
    (Returned /\ Truthy(scrape.located) /\ InSaneRange(ScriptValue(scrape.located.s)))
        => SameValue(scrape.result.price, ScriptValue(scrape.located.s))

\* a value other than the "Unknown" default
Resolved(x) == Truthy(x) /\ x # Str(TxtUnknown)

\* C32: a sector or an industry the summary page gave is the one of the
\* returned record, whether or not the other one was found and whether or not
\* the profile page loads afterwards
C32_ResolvedFieldIsKept ==
    Returned =>
        /\ Resolved(scrape.summary.sector) => scrape.result.sector = scrape.summary.sector
        /\ Resolved(scrape.summary.industry) => scrape.result.industry = scrape.summary.industry

----------------------------------------------------------------------------
\* YahooFinanceScraper.get_historical_data

\* the script reads no more than this many rows of the table
RowCap == 100

\* str.split(sep) for one character
RECURSIVE Split(_, _)
Split(s, sep) ==
    IF \E i \in DOMAIN s : s[i] = sep
    THEN LET i == CHOOSE k \in DOMAIN s : s[k] = sep /\ \A h \in 1..(k - 1) : s[h] # sep
         IN  <<SubSeq(s, 1, i - 1)>> \o Split(SubSeq(s, i + 1, Len(s)), sep)
    ELSE <<s>>

AllDigits(s) == \A i \in DOMAIN s : IsDigit(s[i])

\* the directives of strptime: what the text must be, and its value
\* %Y: four digits
IsYear(s) == Len(s) = 4 /\ AllDigits(s)
\* %m: 1[0-2]|0[1-9]|[1-9]
IsMonth(s) == Len(s) \in {1, 2} /\ AllDigits(s) /\ DigitsValue(s) \in 1..12
\* %d: 3[01]|[12]\d|0[1-9]|[1-9]| [1-9]
IsDay(s) ==
    LET d == IF Len(s) = 2 /\ s[1] = " " THEN Tail(s) ELSE s
    IN  Len(d) \in {1, 2} /\ AllDigits(d) /\ DigitsValue(d) \in 1..31
DayValue(s) == DigitsValue(LStrip(s))
\* %b: a month abbreviation, in any case
MonthAbbr ==
    <<<<"j", "a", "n">>, <<"f", "e", "b">>, <<"m", "a", "r">>, <<"a", "p", "r">>, <<"m", "a", "y">>, <<"j", "u", "n">>,
      <<"j", "u", "l">>, <<"a", "u", "g">>, <<"s", "e", "p">>, <<"o", "c", "t">>, <<"n", "o", "v">>, <<"d", "e", "c">>>>
IsAbbr(s) == \E m \in 1..12 : MonthAbbr[m] = Lower(s)
AbbrValue(s) == CHOOSE m \in 1..12 : MonthAbbr[m] = Lower(s)

IsLeap(y) == y % 4 = 0 /\ (y % 100 # 0 \/ y % 400 = 0)
DaysIn(y, m) ==
    IF m = 2 THEN (IF IsLeap(y) THEN 29 ELSE 28)
    ELSE IF m \in {4, 6, 9, 11} THEN 30 ELSE 31

\* datetime(y, m, d), which raises for a day the month does not have
DateTime(y, m, d) ==
    IF y >= 1 /\ d <= DaysIn(y, m) THEN [year |-> y, month |-> m, day |-> d] ELSE Raised

\* datetime.strptime(s, '%b %d, %Y'): white space of the format stands for
\* one or more white space characters
StrptimeAbbr(s) ==
    LET parts == Split(SubSeq(s, 4, Len(s)), ",")
        day == IF Len(parts) = 2 THEN LStrip(parts[1]) ELSE <<>>
        year == IF Len(parts) = 2 THEN LStrip(parts[2]) ELSE <<>>
    IN  IF /\ Len(s) >= 4
           /\ IsAbbr(SubSeq(s, 1, 3))
           /\ Len(parts) = 2
           /\ parts[1] # <<>> /\ parts[1][1] = " " /\ IsDay(day)
           /\ parts[2] # <<>> /\ parts[2][1] = " " /\ IsYear(year)
        THEN DateTime(DigitsValue(year), AbbrValue(SubSeq(s, 1, 3)), DigitsValue(day))
        ELSE Raised

\* datetime.strptime(s, '%m/%d/%Y')
StrptimeSlashes(s) ==
    LET parts == Split(s, "/")
    IN  IF Len(parts) = 3 /\ IsMonth(parts[1]) /\ IsDay(parts[2]) /\ IsYear(parts[3])
        THEN DateTime(DigitsValue(parts[3]), DigitsValue(parts[1]), DayValue(parts[2]))
        ELSE Raised

\* datetime.strptime(s, '%Y-%m-%d')
StrptimeIso(s) ==
    LET parts == Split(s, "-")
    IN  IF Len(parts) = 3 /\ IsYear(parts[1]) /\ IsMonth(parts[2]) /\ IsDay(parts[3])
        THEN DateTime(DigitsValue(parts[1]), DigitsValue(parts[2]), DayValue(parts[3]))
        ELSE Raised

\* only the first format is tried
ParseDate_FirstFormat(s) ==
    IF StrptimeAbbr(s) # Raised THEN StrptimeAbbr(s) ELSE NoneValue

\* the loop over the three formats: the first that parses, else None
ParseDate(s) ==
    IF StrptimeAbbr(s) # Raised THEN StrptimeAbbr(s)
    ELSE IF StrptimeSlashes(s) # Raised THEN StrptimeSlashes(s)
    ELSE IF StrptimeIso(s) # Raised THEN StrptimeIso(s)
    ELSE NoneValue

TxtDividend == <<"D", "i", "v", "i", "d", "e", "n", "d">>
TxtDate == <<"D", "a", "t", "e">>

\* one row of the script: cells holds the trimmed texts of the td and th
\* cells; null for a row of fewer than 6 cells, and None for a missing cell 6
RowData(cells) ==
    IF Len(cells) < 6 THEN NoneValue
    ELSE [type |-> "row",
          date |-> Str(cells[1]), open |-> Str(cells[2]), high |-> Str(cells[3]),
          low |-> Str(cells[4]), close |-> Str(cells[5]), adjClose |-> Str(cells[6]),
          volume |-> IF Len(cells) >= 7 THEN Str(cells[7]) ELSE NoneValue]

\* the filter of the script
KeepsRow(row) ==
    /\ row # NoneValue
    /\ Truthy(row.date)
    /\ ~Contains(row.date.s, TxtDividend)
    /\ ~Contains(row.date.s, TxtDate)
    /\ Len(row.date.s) > 5

\* the script run on every row of the table
\* rows.slice(0, 300)
TableData_First300(rows) ==
    LET slice == SubSeq(rows, 1, IF Len(rows) < 300 THEN Len(rows) ELSE 300)
    IN  SelectSeq([i \in 1..Len(slice) |-> RowData(slice[i])], KeepsRow)

\* the script run on every row of the table
TableData_Uncapped(rows) ==
    SelectSeq([i \in 1..Len(rows) |-> RowData(rows[i])], KeepsRow)

\* rows.slice(0, 100).map(...).filter(...)
TableData(rows) ==
    LET slice == SubSeq(rows, 1, IF Len(rows) < RowCap THEN Len(rows) ELSE RowCap)
    IN  SelectSeq([i \in 1..Len(slice) |-> RowData(slice[i])], KeepsRow)

\* ScrapedHistoricalData(...) of a row whose date parsed
ScrapedHistoricalData(row, date) ==
    [date |-> date,
     open_price |-> _parse_number(row.open),
     high_price |-> _parse_number(row.high),
     low_price |-> _parse_number(row.low),
     close_price |-> _parse_number(row.close),
     volume |-> _parse_volume(row.volume),
     adj_close |-> _parse_number(row.adjClose)]

\* the loop over table_data: a row whose date parses with no format is passed
\* over
HistoricalRecords(table_data) ==
    LET dated == SelectSeq(table_data, LAMBDA row : ParseDate(row.date.s) # NoneValue)
    IN  [i \in 1..Len(dated) |-> ScrapedHistoricalData(dated[i], ParseDate(dated[i].date.s))]

\* the rows a history page can hold, by kind
PageRow(kind) ==
    CASE kind = "abbr" ->
            <<<<"D", "e", "c", " ", "1", "5", ",", " ", "2", "0", "2", "3">>, <<"1", "9", "0", ".", "1", "0">>, <<"1", "9", "1", ".", "5", "0">>, <<"1", "8", "9", ".", "0", "0">>, <<"1", "9", "0", ".", "9", "0">>, <<"1", "9", "0", ".", "9", "0">>, <<"1", ".", "2", "M">>>>
      [] kind = "slashes" ->
            <<<<"1", "2", "/", "1", "4", "/", "2", "0", "2", "3">>, <<"1", "8", "8", ".", "0", "0">>, <<"1", "9", "0", ".", "0", "0">>, <<"1", "8", "7", ".", "5", "0">>, <<"1", "8", "9", ".", "7", "0">>, <<"1", "8", "9", ".", "7", "0">>, <<"4", "5", ",", "2", "3", "1">>>>
      [] kind = "iso" ->
            <<<<"2", "0", "2", "3", "-", "1", "2", "-", "1", "3">>, <<"1", "8", "7", ".", "0", "0">>, <<"1", "8", "8", ".", "5", "0">>, <<"1", "8", "6", ".", "0", "0">>, <<"1", "8", "7", ".", "2", "0">>, <<"1", "8", "7", ".", "2", "0">>, <<"-">>>>
      [] kind = "six cells" ->
            <<<<"F", "e", "b", " ", "2", "9", ",", " ", "2", "0", "2", "4">>, <<"1", "8", "1", ".", "0", "0">>, <<"1", "8", "2", ".", "0", "0">>, <<"1", "8", "0", ".", "0", "0">>, <<"1", "8", "1", ".", "4", "0">>, <<"1", "8", "1", ".", "4", "0">>>>
      [] kind = "other format" ->
            <<<<"1", "5", " ", "D", "e", "c", " ", "2", "0", "2", "3">>, <<"1", ".", "0", "0">>, <<"1", ".", "0", "0">>, <<"1", ".", "0", "0">>, <<"1", ".", "0", "0">>, <<"1", ".", "0", "0">>, <<"1">>>>
      [] kind = "no such day" ->
            <<<<"F", "e", "b", " ", "3", "0", ",", " ", "2", "0", "2", "3">>, <<"2", ".", "0", "0">>, <<"2", ".", "0", "0">>, <<"2", ".", "0", "0">>, <<"2", ".", "0", "0">>, <<"2", ".", "0", "0">>, <<"2">>>>
      [] kind = "short year" ->
            <<<<"1", "/", "2", "/", "2", "4">>, <<"3", ".", "0", "0">>, <<"3", ".", "0", "0">>, <<"3", ".", "0", "0">>, <<"3", ".", "0", "0">>, <<"3", ".", "0", "0">>, <<"3">>>>
      [] kind = "dividend" -> <<<<"N", "o", "v", " ", "1", "0", ",", " ", "2", "0", "2", "3">>, <<"0", ".", "2", "4", " ", "D", "i", "v", "i", "d", "e", "n", "d">>>>
      [] kind = "dividend cell" ->
            <<<<"0", ".", "2", "4", " ", "D", "i", "v", "i", "d", "e", "n", "d">>, <<"-">>, <<"-">>, <<"-">>, <<"-">>, <<"-">>, <<"-">>>>
      [] kind = "header" ->
            <<<<"D", "a", "t", "e">>, <<"O", "p", "e", "n">>, <<"H", "i", "g", "h">>, <<"L", "o", "w">>, <<"C", "l", "o", "s", "e">>, <<"A", "d", "j", " ", "C", "l", "o", "s", "e">>, <<"V", "o", "l", "u", "m", "e">>>>
      [] kind = "blank" -> <<<<>>, <<>>, <<>>, <<>>, <<>>, <<>>, <<>>>>

RowPatterns ==
    {<<"abbr">>, <<"abbr", "slashes", "iso">>, <<"other format">>,
     <<"slashes", "other format", "iso", "no such day", "six cells", "short year">>,
     <<"header", "abbr", "dividend", "slashes", "dividend cell", "iso", "blank">>}
TableLengths == {0, 1, 3, RowCap - 1, RowCap, RowCap + 1, 2 * RowCap}
PageTable(n, pattern) == [i \in 1..n |-> PageRow(pattern[((i - 1) % Len(pattern)) + 1])]
PageTables == {PageTable(n, pattern) : n \in TableLengths, pattern \in RowPatterns}

Periods == {"1mo", "2y"}

\* scraper.get_historical_data(symbol, period) is called on a started scraper
GetHistoricalData(symbol, period) ==
    /\ scrape.pc = "idle"
    /\ scrape' = [method |-> "get_historical_data", symbol |-> symbol, period |-> period,
                  caller |-> "direct", years |-> 0,
                  pc |-> "h_goto", rows |-> <<>>, table_data |-> <<>>, result |-> <<>>]
    /\ UNCHANGED <<cascade, parseVars, agentVars, fetchVars, scraperVars, batchVars, saveVars, frames, growthVars>>

\* the period _get_historical_data_with_scraper asks the scraper for
ScraperPeriod(years) ==
    IF years <= 1 THEN "1y"
    ELSE IF years <= 2 THEN "2y"
    ELSE IF years <= 5 THEN "5y"
    ELSE "10y"

\* the numbers of years the service is asked for
Years == {1, 2, 5, 10}

\* _get_historical_data_with_scraper(symbol, years), the fallback path of the
\* service, calls scraper.get_historical_data(symbol, period)
GetHistoricalDataWithScraper(symbol, years) ==
    /\ scrape.pc = "idle"
    /\ scrape' = [method |-> "get_historical_data", symbol |-> symbol,
                  period |-> ScraperPeriod(years), caller |-> "service", years |-> years,
                  pc |-> "h_goto", rows |-> <<>>, table_data |-> <<>>, result |-> <<>>]
    /\ UNCHANGED <<cascade, parseVars, agentVars, fetchVars, scraperVars, batchVars, saveVars, frames, growthVars>>

\* page.goto and wait_for_timeout return
HistoryGoto ==
    /\ scrape.pc = "h_goto"
    /\ scrape' = [scrape EXCEPT !.pc = "h_table"]
    /\ UNCHANGED <<cascade, parseVars, agentVars, fetchVars, scraperVars, batchVars, saveVars, frames, growthVars>>

\* _select_time_period unless the period is 1mo, then _wait_for_any_selector:
\* without a table the result is []
HistoryWaitTable(table_found) ==
    /\ scrape.pc = "h_table"
    /\ scrape' = IF table_found
                 THEN [scrape EXCEPT !.pc = "h_rows"]
                 ELSE [scrape EXCEPT !.pc = "done", !.result = <<>>]
    /\ UNCHANGED <<cascade, parseVars, agentVars, fetchVars, scraperVars, batchVars, saveVars, frames, growthVars>>

\* page.goto, wait_for_timeout or page.evaluate raises: the outer except
\* clause returns []
HistoryPageCallRaises ==
    /\ scrape.pc \in {"h_goto", "h_rows"}
    /\ scrape' = [scrape EXCEPT !.pc = "done", !.result = <<>>]
    /\ UNCHANGED <<cascade, parseVars, agentVars, fetchVars, scraperVars, batchVars, saveVars, frames, growthVars>>

\* table_data = await self.page.evaluate(...) on a page whose table holds the
\* given rows, then the loop over table_data and the return
HistoryRows(rows) ==
    /\ scrape.pc = "h_rows"
    /\ scrape' = [scrape EXCEPT
          !.pc = "done",
          !.rows = rows,
          !.table_data = TableData(rows),
          !.result = HistoricalRecords(TableData(rows))]
    /\ UNCHANGED <<cascade, parseVars, agentVars, fetchVars, scraperVars, batchVars, saveVars, frames, growthVars>>

\* HistoricalDataPoint(...) for each ScrapedHistoricalData of the scraper
HistoricalDataPoints(scraped_data) ==
    [i \in DOMAIN scraped_data |->
        [date |-> scraped_data[i].date,
         open_price |-> scraped_data[i].open_price,
         high_price |-> scraped_data[i].high_price,
         low_price |-> scraped_data[i].low_price,
         close_price |-> scraped_data[i].close_price,
         volume |-> scraped_data[i].volume,
         dividend_amount |-> AsFloat(Decimal(0, 0)),
         split_coefficient |-> AsFloat(Decimal(1, 0))]]

\* _get_historical_data_with_scraper converts what the scraper returned and
\* the service hands it to its caller
ScraperHistoryConverted ==
    /\ scrape.pc = "done"
    /\ scrape.method = "get_historical_data"
    /\ scrape.caller = "service"
    /\ scrape' = [scrape EXCEPT !.pc = "returned"]
    /\ historical_data' = HistoricalDataPoints(scrape.result)
    /\ UNCHANGED <<growth, cascade, parseVars, agentVars, fetchVars, scraperVars, batchVars, saveVars, frames>>

\* the caller computes the growth metrics of the history it was handed
GrowthOfScrapedHistory ==
    /\ scrape.pc = "returned"
    /\ scrape' = [scrape EXCEPT !.pc = "measured"]
    /\ growth' = Append(growth, [input |-> historical_data,
                                 result |-> calculate_growth_metrics(historical_data)])
    /\ UNCHANGED <<historical_data, cascade, parseVars, agentVars, fetchVars, scraperVars, batchVars, saveVars, frames>>

----------------------------------------------------------------------------
\* Properties of the stored history

\* C29: whatever save_stock_data calls ran, concurrently or not, and whatever
\* dates the source histories repeat, no two stored HistoricalData rows of a
\* stock have the same date
C29_OneRowPerStockAndDate ==
    \A r1 \in db.historical_data, r2 \in db.historical_data :
        (r1.stock_id = r2.stock_id /\ r1.date = r2.date) => r1 = r2

----------------------------------------------------------------------------
\* Properties of YahooFinanceScraper.close()

\* the page, browser and driver the scraper holds
Held(sc) ==
    {<<"page", sc.page>> : x \in {1} \cap (IF sc.page # 0 THEN {1} ELSE {})}
    \cup {<<"browser", sc.browser>> : x \in {1} \cap (IF sc.browser # 0 THEN {1} ELSE {})}
    \cup {<<"playwright", sc.playwright>> : x \in {1} \cap (IF sc.playwright # 0 THEN {1} ELSE {})}

\* C30: close() releases the browser and stops the driver even when closing
\* the page raises: after close() at most the one resource whose own close
\* raised is still open
C30_CloseReleasesTheRest ==
    (pc = "done" /\ starts > 0) => Cardinality(Held(scraper) \ closed) <= 1

----------------------------------------------------------------------------
\* Properties of get_historical_data

HistoryReturned ==
    /\ scrape.pc = "done"
    /\ scrape.method = "get_historical_data"

\* the date texts of the pages that are dates in one of the formats
\* "Mon D, YYYY", "M/D/YYYY" and "YYYY-MM-DD", and the dates they write
DateTexts ==
    {<<<<"D", "e", "c", " ", "1", "5", ",", " ", "2", "0", "2", "3">>, [year |-> 2023, month |-> 12, day |-> 15]>>,
     <<<<"1", "2", "/", "1", "4", "/", "2", "0", "2", "3">>, [year |-> 2023, month |-> 12, day |-> 14]>>,
     <<<<"2", "0", "2", "3", "-", "1", "2", "-", "1", "3">>, [year |-> 2023, month |-> 12, day |-> 13]>>,
     <<<<"F", "e", "b", " ", "2", "9", ",", " ", "2", "0", "2", "4">>, [year |-> 2024, month |-> 2, day |-> 29]>>,
     <<<<"N", "o", "v", " ", "1", "0", ",", " ", "2", "0", "2", "3">>, [year |-> 2023, month |-> 11, day |-> 10]>>}
IsDateText(s) == \E p \in DateTexts : p[1] = s
DateWritten(s) == (CHOOSE p \in DateTexts : p[1] = s)[2]

\* C26: the result holds exactly one record, in table order, for each
\* extracted row whose date text is a date in one of the three formats; rows
\* with another date text are dropped and do not stop the others
C26_BadDatesAreDropped ==
    HistoryReturned =>
        LET kept == SelectSeq(scrape.table_data, LAMBDA row : IsDateText(row.date.s))
        IN  /\ Len(scrape.result) = Len(kept)
            /\ \A i \in DOMAIN kept :
                  scrape.result[i].date = DateWritten(kept[i].date.s)

\* rows with unparsable dates stand between rows that gave records
C26_Witness ==
    /\ HistoryReturned
    /\ Len(scrape.table_data) = 3
    /\ ~IsDateText(scrape.table_data[2].date.s)
    /\ Len(scrape.result) = 2

\* a data row has at least 6 cells and a first cell that is no header and no
\* dividend marker
IsDataRow(cells) ==
    /\ Len(cells) >= 6
    /\ ~Contains(cells[1], <<"D", "i", "v", "i", "d", "e", "n", "d">>)
    /\ ~Contains(cells[1], <<"D", "a", "t", "e">>)

\* C27: no more than 100 rows of the table are read, however many it has, and
\* non-data rows are skipped: the result never has more than 100 records, and
\* every record is built from a data row among the first 100
C27_RowCapAndDataRowsOnly ==
    HistoryReturned =>
        LET read == 1..(IF Len(scrape.rows) < RowCap THEN Len(scrape.rows) ELSE RowCap)
            data == {j \in read : IsDataRow(scrape.rows[j])}
        IN  /\ Len(scrape.result) <= RowCap
            /\ Len(scrape.result) <= Cardinality(data)
            /\ \A i \in DOMAIN scrape.result :
                  \E j \in data :
                      /\ IsDateText(scrape.rows[j][1])
                      /\ scrape.result[i].date = DateWritten(scrape.rows[j][1])

\* a table of more rows than the cap gives exactly 100 records
C27_Witness ==
    /\ HistoryReturned
    /\ Len(scrape.rows) > RowCap
    /\ Len(scrape.result) = RowCap

\* the service handed a history of the fallback path to its caller
FallbackHistoryHanded ==
    /\ scrape.pc \in {"returned", "measured"}
    /\ scrape.method = "get_historical_data"

\* C35: a history obtained through the fallback path has at most 100 points,
\* whatever number of years was asked for and however many rows the page
\* holds, and calculate_growth_metrics of it is the empty result
C35_FallbackHistoryTooShort ==
    /\ FallbackHistoryHanded => Len(historical_data) <= RowCap
    /\ (FallbackHistoryHanded /\ scrape.pc = "measured") =>
          /\ growth[Len(growth)].input = historical_data
          /\ growth[Len(growth)].result = EmptyDict

\* ten years were asked for and the page holds 200 rows of data: the history
\* has 100 points and its growth metrics are empty
C35_Witness ==
    /\ FallbackHistoryHanded
    /\ scrape.pc = "measured"
    /\ scrape.years = 10
    /\ Len(scrape.rows) = 2 * RowCap
    /\ Len(historical_data) = RowCap
    /\ growth[Len(growth)].result = EmptyDict

ScrapeInit ==
    /\ use_scraper_fallback = TRUE
    /\ fn = "none"
    /\ pc = "idle"
    /\ attempt = 0
    /\ pending = <<>>
    /\ trace = <<>>
    /\ ret = [kind |-> "pending"]
    /\ scraper = [playwright |-> 0, browser |-> 0, page |-> 0]
    /\ starts = 0
    /\ opened = {}
    /\ closed = {}
    /\ scraped = NoneValue
    /\ symbols = <<>>
    /\ bpc = "idle"
    /\ tasks = <<>>
    /\ idx = 0
    /\ results = {}
    /\ db = [stocks |-> {}, historical_data |-> {}, financial_metrics |-> {}]
    /\ saves = <<>>
    /\ down = {}
    /\ frames = <<>>
    /\ historical_data = <<>>
    /\ growth = <<>>
    /\ TailIdle

ScrapeNext ==
    \/ \E symbol \in ScrapeSymbols : GetStockInfo(symbol)
    \/ InfoGoto
    \/ \E found \in BOOLEAN : InfoWaitMarkers(found)
    \/ InfoPageCallRaises
    \/ \E p \in NamePages : InfoName(p)
    \/ \E p \in PricePages : InfoPrice(p)
    \/ InfoStat
    \/ \E s1 \in SelectedAnswers(5, TxtTechnology), i1 \in SelectedAnswers(4, TxtElectronics),
          profile_ok \in BOOLEAN,
          s2 \in FewAnswers(5, TxtTechnology), i2 \in FewAnswers(5, TxtElectronics) :
            InfoSectorIndustry(s1, i1, profile_ok, s2, i2)
    \/ \E symbol \in ScrapeSymbols, period \in Periods : GetHistoricalData(symbol, period)
    \/ \E symbol \in ScrapeSymbols, years \in Years : GetHistoricalDataWithScraper(symbol, years)
    \/ HistoryGoto
    \/ \E table_found \in BOOLEAN : HistoryWaitTable(table_found)
    \/ HistoryPageCallRaises
    \/ \E rows \in PageTables : HistoryRows(rows)
    \/ ScraperHistoryConverted
    \/ GrowthOfScrapedHistory

ScrapeSpec == ScrapeInit /\ [][ScrapeNext]_vars

----------------------------------------------------------------------------
\* StockDataCollectionTool._run and the data-collection graph
\* (src/src/agents/data_collection_agent.py)

\* CollectionResult(success, data, error)
CollectionResult(success, data, error) ==
    [type |-> "CollectionResult", success |-> success, data |-> data, error |-> error]

\* d[key] = value on a dict
DictPut(d, key, value) == (key :> value) @@ d

\* the volume ticker.history reports with every row
WithVolume(points) == [i \in DOMAIN points |-> points[i] @@ [volume |-> 1000]]

\* the locals of a _run(symbol, stock_name) call; acquired lists the kinds of
\* data the call fetched from the sources, in order
NewToolRun(symbol, stock_name) ==
    [pc |-> "info", symbol |-> symbol, stock_name |-> stock_name, acquired |-> <<>>,
     stock_info |-> NoneValue, historical_data |-> <<>>, financial_metrics |-> NoneValue,
     growth_metrics |-> EmptyDict, result |-> NoneValue]

\* stock_info = stock_data_service.get_stock_info(symbol)
ToolGetStockInfo ==
    /\ tool.pc = "info"
    /\ tool' = [tool EXCEPT !.pc = "history",
                            !.stock_info = FetchedInfo(tool.symbol),
                            !.acquired = Append(@, "info")]
    /\ UNCHANGED <<workflow, parseVars, pageVars, fetchVars, scraperVars, batchVars, saveVars,
                   frames, growthVars>>

\* the tables ticker.history hands to _run itself: the short ones (a year of
\* rows reaches the database through save_stock_data's own acquisition, and
\* the growth metrics of a year are the subject of GrowthSpec)
ToolTables == ApiTables \cup RepeatingTables

\* historical_data = stock_data_service.get_historical_data(symbol)
ToolGetHistoricalData ==
    /\ tool.pc = "history"
    /\ \E table \in ToolTables :
          tool' = [tool EXCEPT !.pc = "metrics",
                               !.historical_data = WithVolume(FetchedHistory(tool.symbol, table)),
                               !.acquired = Append(@, "history")]
    /\ UNCHANGED <<workflow, parseVars, pageVars, fetchVars, scraperVars, batchVars, saveVars,
                   frames, growthVars>>

\* financial_metrics = stock_data_service.get_financial_metrics(symbol), then
\* growth_metrics = stock_data_service.calculate_growth_metrics(symbol, historical_data)
ToolGetFinancialMetrics ==
    /\ tool.pc = "metrics"
    /\ \E m \in PrimaryMetrics :
          tool' = [tool EXCEPT !.pc = "save",
                               !.financial_metrics = FetchedMetrics(tool.symbol, m),
                               !.growth_metrics = calculate_growth_metrics(tool.historical_data),
                               !.acquired = Append(@, "metrics")]
    /\ UNCHANGED <<workflow, parseVars, pageVars, fetchVars, scraperVars, batchVars, saveVars,
                   frames, growthVars>>

\* success = stock_data_service.save_stock_data(symbol, stock_name) is entered
ToolSaveStockData ==
    /\ tool.pc = "save"
    /\ tool' = [tool EXCEPT !.pc = "saving"]
    /\ saves' = <<NewSave(tool.symbol, tool.stock_name)>>
    /\ bpc' = "direct"
    /\ UNCHANGED <<workflow, db, down, symbols, tasks, idx, results, parseVars, pageVars,
                   fetchVars, scraperVars, frames, growthVars>>

\* save_stock_data returned: return CollectionResult(success=success, data={...})
ToolReturns ==
    /\ tool.pc = "saving"
    /\ saves[1].pc = "done"
    /\ LET success == saves[1].result = "True"
       IN  tool' = [tool EXCEPT
              !.pc = "returned",
              !.result = CollectionResult(success,
                            [stock_info |-> tool.stock_info,
                             historical_data_points |-> Len(tool.historical_data),
                             financial_metrics |-> tool.financial_metrics,
                             growth_metrics |-> tool.growth_metrics,
                             data_saved |-> success],
                            NoneValue)]
    /\ UNCHANGED <<workflow, parseVars, pageVars, fetchVars, scraperVars, batchVars, saveVars,
                   frames, growthVars>>

\* the rows of history DataValidationTool asks for (at least one year)
MinHistoryRows == 252

\* DataValidationTool._run(symbol): db_raises when a statement of the session
\* raises, recent_news_count the news articles of the last 30 days
DataValidation(symbol, db_raises, recent_news_count) ==
    IF db_raises
    THEN CollectionResult(FALSE, EmptyDict, Str("connection lost"))
    ELSE IF QueryStock(symbol) = {}
    THEN CollectionResult(FALSE, EmptyDict, Str("not found in database"))
    ELSE LET stock == CHOOSE r \in QueryStock(symbol) : TRUE
             historical_count ==
                 Cardinality({r \in db.historical_data : r.stock_id = stock.id})
             financial_metrics_count ==
                 Cardinality({r \in db.financial_metrics : r.stock_id = stock.id})
             validation_status ==
                 [stock_exists |-> TRUE,
                  historical_data_count |-> historical_count,
                  has_sufficient_historical |-> historical_count >= MinHistoryRows,
                  financial_metrics_count |-> financial_metrics_count,
                  has_financial_metrics |-> financial_metrics_count > 0,
                  recent_news_count |-> recent_news_count,
                  has_recent_news |-> recent_news_count > 0,
                  overall_valid |-> historical_count >= MinHistoryRows
                                    /\ financial_metrics_count > 0]
         IN  CollectionResult(validation_status.overall_valid, validation_status, NoneValue)

\* DataCollectionState(...) as collect_data builds it
InitialState(symbol, stock_name) ==
    [symbol |-> Upper(symbol), stock_name |-> stock_name, task |-> "data_collection",
     collected_data |-> EmptyDict, status |-> "pending", error |-> NoneValue,
     next_action |-> "initialize"]

_initialize_node(state) ==
    [state EXCEPT !.status = "initialized", !.collected_data = EmptyDict,
                  !.next_action = "collect_stock_data"]

\* result is what StockDataCollectionTool._run returned
_collect_stock_data_node(state, result) ==
    IF result.success
    THEN [state EXCEPT !.collected_data = DictPut(@, "stock_data", result.data),
                       !.status = "stock_data_collected",
                       !.next_action = "collect_news"]
    ELSE [state EXCEPT !.status = "error", !.error = result.error,
                       !.next_action = "finalize"]

\* result is what NewsCollectionTool._arun returned, or Raised when
\* get_event_loop, run_until_complete or the tool raised
_collect_news_node(state, result) ==
    IF result = Raised
    THEN [state EXCEPT
            !.collected_data = DictPut(@, "news_data", [error |-> Str("raised")]),
            !.status = "news_collection_failed",
            !.next_action = "validate_data"]
    ELSE IF result.success
    THEN [state EXCEPT !.collected_data = DictPut(@, "news_data", result.data),
                       !.status = "news_collected",
                       !.next_action = "validate_data"]
    ELSE [state EXCEPT
            !.collected_data = DictPut(@, "news_data", [error |-> result.error]),
            !.status = "news_collection_failed",
            !.next_action = "validate_data"]

\* result is what DataValidationTool._run returned
_validate_data_node(state, result) ==
    [state EXCEPT !.collected_data = DictPut(@, "validation", result.data),
                  !.status = IF result.success THEN "data_validated" ELSE "validation_failed",
                  !.error = IF result.success THEN @ ELSE result.error,
                  !.next_action = "finalize"]

\* the answer of the model to the prompt built from the state, or the text of
\* the except clause: a str either way
_generate_summary(state) == Str(<<"S","u","m","m","a","r","y">>)

_finalize_node(state) ==
    [state EXCEPT !.collected_data = DictPut(@, "summary", _generate_summary(state)),
                  !.status = IF @ \notin {"error", "validation_error"} THEN "completed" ELSE @,
                  !.next_action = "done"]

\* the graph follows state["next_action"]
NextNode_FollowsNextAction(node, state) ==
    IF state.next_action = "done" THEN "END" ELSE state.next_action

\* the edges of the graph
NextNode(node, state) ==
    CASE node = "initialize" -> "collect_stock_data"
      [] node = "collect_stock_data" -> "collect_news"
      [] node = "collect_news" -> "validate_data"
      [] node = "validate_data" -> "finalize"
      [] node = "finalize" -> "END"

\* the graph ran a node: the node is visited and the edge is followed
AfterNode(node, state) ==
    [workflow EXCEPT !.state = state,
                     !.visited = IF node = "collect_stock_data" THEN @ ELSE Append(@, node),
                     !.pc = NextNode(node, state)]

\* collect_data(symbol, stock_name): the graph is invoked on the initial state
CollectData(symbol, stock_name) ==
    /\ workflow.pc = "idle"
    /\ workflow' = [pc |-> "initialize", state |-> InitialState(symbol, stock_name),
                    visited |-> <<>>, returned |-> NoneValue]
    /\ UNCHANGED <<tool, parseVars, pageVars, fetchVars, scraperVars, batchVars, saveVars,
                   frames, growthVars>>

InitializeNode ==
    /\ workflow.pc = "initialize"
    /\ workflow' = AfterNode("initialize", _initialize_node(workflow.state))
    /\ UNCHANGED <<tool, parseVars, pageVars, fetchVars, scraperVars, batchVars, saveVars,
                   frames, growthVars>>

\* the node is entered: tool._run(state["symbol"], state["stock_name"]) starts
CollectStockDataNode ==
    /\ workflow.pc = "collect_stock_data"
    /\ tool.pc = "idle"
    /\ workflow' = [workflow EXCEPT !.visited = Append(@, "collect_stock_data")]
    /\ tool' = NewToolRun(workflow.state.symbol, workflow.state.stock_name)
    /\ UNCHANGED <<parseVars, pageVars, fetchVars, scraperVars, batchVars, saveVars,
                   frames, growthVars>>

\* tool._run returned: the rest of the node
CollectStockDataNodeReturns ==
    /\ workflow.pc = "collect_stock_data"
    /\ tool.pc = "returned"
    /\ workflow' = AfterNode("collect_stock_data",
                             _collect_stock_data_node(workflow.state, tool.result))
    /\ tool' = [tool EXCEPT !.pc = "handled"]
    /\ UNCHANGED <<parseVars, pageVars, fetchVars, scraperVars, batchVars, saveVars,
                   frames, growthVars>>

\* what the news collection of the node can end with
NewsResults ==
    {CollectionResult(TRUE, [news_items_collected |-> 1, data_saved |-> TRUE], NoneValue),
     CollectionResult(FALSE, EmptyDict, Str("no news source")),
     Raised}

CollectNewsNode(result) ==
    /\ workflow.pc = "collect_news"
    /\ workflow' = AfterNode("collect_news", _collect_news_node(workflow.state, result))
    /\ UNCHANGED <<tool, parseVars, pageVars, fetchVars, scraperVars, batchVars, saveVars,
                   frames, growthVars>>

ValidateDataNode(db_raises, recent_news_count) ==
    /\ workflow.pc = "validate_data"
    /\ workflow' = AfterNode("validate_data",
                     _validate_data_node(workflow.state,
                         DataValidation(workflow.state.symbol, db_raises, recent_news_count)))
    /\ UNCHANGED <<tool, parseVars, pageVars, fetchVars, scraperVars, batchVars, saveVars,
                   frames, growthVars>>

FinalizeNode ==
    /\ workflow.pc = "finalize"
    /\ workflow' = AfterNode("finalize", _finalize_node(workflow.state))
    /\ UNCHANGED <<tool, parseVars, pageVars, fetchVars, scraperVars, batchVars, saveVars,
                   frames, growthVars>>

\* the graph reached END: collect_data returns the dict built from final_state
CollectDataReturns ==
    /\ workflow.pc = "END"
    /\ workflow' = [workflow EXCEPT
          !.pc = "returned",
          !.returned = [symbol |-> workflow.state.symbol,
                        status |-> workflow.state.status,
                        collected_data |-> workflow.state.collected_data,
                        error |-> workflow.state.error]]
    /\ UNCHANGED <<tool, parseVars, pageVars, fetchVars, scraperVars, batchVars, saveVars,
                   frames, growthVars>>

\* what the callers of collect_data pass
AgentSymbols == {<<"a","a","p","l">>}
AgentNames == {NoneValue, Str(<<"A","c","m","e">>)}

AgentInit ==
    /\ use_scraper_fallback = TRUE
    /\ fn = "none"
    /\ pc = "idle"
    /\ attempt = 0
    /\ pending = <<>>
    /\ trace = <<>>
    /\ ret = [kind |-> "pending"]
    /\ scraper = [playwright |-> 0, browser |-> 0, page |-> 0]
    /\ starts = 0
    /\ opened = {}
    /\ closed = {}
    /\ scraped = NoneValue
    /\ symbols = <<>>
    /\ bpc = "idle"
    /\ tasks = <<>>
    /\ idx = 0
    /\ results = {}
    /\ db \in InitialDbs
    /\ saves = <<>>
    /\ down \in SUBSET {Upper(symbol) : symbol \in AgentSymbols}
    /\ frames = <<>>
    /\ historical_data = <<>>
    /\ growth = <<>>
    /\ TailIdle

AgentNext ==
    \/ \E symbol \in AgentSymbols, name \in AgentNames : CollectData(symbol, name)
    \/ InitializeNode
    \/ CollectStockDataNode
    \/ ToolGetStockInfo
    \/ ToolGetHistoricalData
    \/ ToolGetFinancialMetrics
    \/ ToolSaveStockData
    \/ \E i \in DOMAIN saves : SaveQuery(i)
    \/ \E i \in DOMAIN saves : SaveCreate(i)
    \/ \E i \in DOMAIN saves : SaveHistory(i)
    \/ \E i \in DOMAIN saves : SaveMetrics(i)
    \/ \E i \in DOMAIN saves : SaveStatementRaises(i)
    \/ \E i \in DOMAIN saves, ok \in BOOLEAN : SaveCommit(i, ok)
    \/ ToolReturns
    \/ CollectStockDataNodeReturns
    \/ \E result \in NewsResults : CollectNewsNode(result)
    \/ \E db_raises \in BOOLEAN, recent_news_count \in {0, 1} :
          ValidateDataNode(db_raises, recent_news_count)
    \/ FinalizeNode
    \/ CollectDataReturns

AgentSpec == AgentInit /\ [][AgentNext]_vars

\* the event loop runs every node the graph schedules and every call returns
FairAgentSpec == AgentSpec /\ WF_vars(AgentNext)

----------------------------------------------------------------------------
\* Properties of StockDataCollectionTool._run

\* how often a kind of data occurs in a list of acquisitions
TimesAcquired(kind, acquired) ==
    Cardinality({i \in DOMAIN acquired : acquired[i] = kind})

\* the acquisitions of one collection: those of _run, then those of the
\* save_stock_data call it makes
AcquiredByCollection == tool.acquired \o saves[1].acquired

\* C37: one _run acquires the info, the history and the metrics of its symbol
\* once each, in that order, and its save step acquires none of them again.
C37_EachKindAcquiredOnce ==
    tool.pc = "returned" =>
        /\ AcquiredByCollection = <<"info", "history", "metrics">>
        /\ saves[1].acquired = <<>>

\* C38: the nodes the graph has run are a prefix of initialize,
\* collect_stock_data, collect_news, validate_data, finalize, whatever the
\* steps returned; at END all five have run once and next_action is "done";
\* a failed or raising news collection is followed by validate_data; and every
\* started run returns.
NodeOrder == <<"initialize", "collect_stock_data", "collect_news", "validate_data", "finalize">>

WorkflowStarted == workflow.pc \notin {"idle"}

VisitsInOrder ==
    WorkflowStarted =>
        /\ Len(workflow.visited) <= Len(NodeOrder)
        /\ workflow.visited = SubSeq(NodeOrder, 1, Len(workflow.visited))
        /\ workflow.pc \in {"END", "returned"} =>
              /\ workflow.visited = NodeOrder
              /\ workflow.state.next_action = "done"
        /\ workflow.pc \notin {"END", "returned"} =>
              workflow.pc = NodeOrder[IF tool.pc \in {"idle", "handled"}
                                      THEN Len(workflow.visited) + 1
                                      ELSE Len(workflow.visited)]

NewsFailed ==
    /\ WorkflowStarted
    /\ workflow.state.status = "news_collection_failed"

C38_AllNodesInOrder ==
    /\ [](VisitsInOrder /\ (NewsFailed => workflow.pc = "validate_data"))
    /\ (WorkflowStarted ~> workflow.pc = "returned")

C38_Witness ==
    /\ workflow.pc = "returned"
    /\ workflow.visited = NodeOrder
    /\ "error" \in DOMAIN workflow.returned.collected_data["news_data"]
    /\ "validation" \in DOMAIN workflow.returned.collected_data
    /\ "summary" \in DOMAIN workflow.returned.collected_data
    /\ "stock_data" \in DOMAIN workflow.returned.collected_data

\* C39: when _collect_stock_data_node fails, neither collect_news nor
\* validate_data runs, and collect_data returns status "error".
HasRun(node) == \E i \in DOMAIN workflow.visited : workflow.visited[i] = node

StockStepFailed ==
    /\ tool.pc = "handled"
    /\ ~tool.result.success

C39_FailedStockStepSkipsToFinalize ==
    StockStepFailed =>
        /\ workflow.pc # "collect_news"
        /\ ~HasRun("collect_news")
        /\ ~HasRun("validate_data")
        /\ workflow.pc = "returned" => workflow.returned.status = "error"

\* C40: collect_data returns status "completed" only with a validation result
\* in collected_data whose overall_valid is true.
C40_CompletedOnlyIfValid ==
    (workflow.pc = "returned" /\ workflow.returned.status = "completed") =>
        /\ "validation" \in DOMAIN workflow.returned.collected_data
        /\ "overall_valid" \in DOMAIN workflow.returned.collected_data["validation"]
        /\ workflow.returned.collected_data["validation"].overall_valid

====
